---- MODULE Spec2Model ----
(***************************************************************************)
(* A model of the document structuring and publishing pipeline of ambuda:  *)
(* the alignment engine (views/proofing/publish.py), the proofing-XML      *)
(* validator (utils/xml_validation.py), the text validation rules          *)
(* (utils/text_validation.py), the revision / suggestion workflow          *)
(* (views/api.py, views/proofing/page.py, views/proofing/suggestions.py)   *)
(* and the TEI rewrite / cross-page assembler (utils/text_publishing.py).  *)
(*                                                                         *)
(* Python indexes are kept 0-based; At(s, i) reads the i-th item of a      *)
(* Python list that is modelled as a TLA+ sequence.                        *)
(***************************************************************************)
EXTENDS Integers, Sequences, FiniteSets, TLC

VARIABLES
    pc,             \* which component's scenario is running and how far it is
    old_items,      \* _align_blocks: the old sequence
    new_items,      \* _align_blocks: the new sequence
    opcodes,        \* matcher.get_opcodes() of the last alignment
    alignment,      \* the pairs returned by _align_blocks
    content,        \* validate_proofing_xml: the page content that is validated
    results,        \* validate_proofing_xml: the returned list of errors
    revisions,      \* page.revisions of the proofed page, oldest first
    page_version,   \* page.version
    page_status,    \* page.status.name
    suggestions,    \* the Suggestion rows, by id
    response,       \* what the last request was answered with
    conflict,       \* the edit conflict the answer carries, if any
    pages,          \* create_tei_document: the pages walked so far, as blocks
    tei_blocks,     \* create_tei_document: the output blocks so far
    last_n,         \* create_tei_document: the latest ordering key per counter
    pending,        \* create_tei_document: the blocks that await a continuation
    text_blocks,    \* the TextBlock rows of the published text, ordered by n
    requests,       \* create: the requests that republish the text, each with its
                    \* document, the rows it read and how far it is
    report,         \* the ValidationResult of the unique-n rule
    block,          \* _rewrite_block_to_tei_xml: the proofing block as the caller read it
    tei,            \* _rewrite_block_to_tei_xml: the element the caller passes in
    target,         \* Filter: the target expression of a publish configuration
    candidate,      \* Filter.matches: the indexed block that is tested
    matched,        \* Filter.matches: the verdict, or the error of the constructor
    config,         \* project.config: the stored publish targets
    posted,         \* config(): the publish targets of the posted configuration
    parsed_filter,  \* Filter: the parsed expression of the filter that was made
    source_text,    \* ProofPage: the text a page is parsed from
    proof_page,     \* ProofPage: the page that was built or parsed
    xml_strings,    \* ProofPage.to_xml_string: the strings rendered so far
    match_flags,    \* split_plain_text_to_blocks: match_stage, match_speaker, match_chaya
    split_blocks,   \* split_plain_text_to_blocks: the returned blocks
    old_str,        \* revision_diff_ops: the old string
    new_str,        \* revision_diff_ops: the new string
    diff_ops        \* revision_diff_ops: the returned operations

alignVars == <<old_items, new_items, opcodes, alignment>>

validateVars == <<content, results>>

proofVars == <<revisions, page_version, page_status, suggestions, response,
               conflict>>

publishVars == <<pages, tei_blocks, last_n, pending, text_blocks, requests, report>>

rewriteVars == <<block, tei>>

filterVars == <<target, candidate, matched, config, posted, parsed_filter>>

structVars == <<source_text, proof_page, xml_strings, match_flags, split_blocks>>

diffVars == <<old_str, new_str, diff_ops>>

vars == <<pc, old_items, new_items, opcodes, alignment, content, results,
          revisions, page_version, page_status, suggestions, response,
          conflict, pages, tei_blocks, last_n, pending, text_blocks, requests, report,
          block, tei,
          target, candidate, matched, config, posted, parsed_filter, source_text, proof_page,
          xml_strings, match_flags, split_blocks, old_str, new_str, diff_ops>>

(***************************************************************************)
(* Bounds                                                                  *)
(***************************************************************************)
MaxLen == 3         \* longest old / new sequence that is aligned
MaxNodes == 3       \* most elements in a validated document
MaxRevisions == 2   \* most revisions the proofed page gets
MaxSuggestions == 2 \* most suggestions that are submitted
MaxBlocks == 3      \* most proofing blocks in a published project
MaxMarks == 3       \* most inline marks in a rewritten block
MaxLines == 4       \* most lines of a text that is segmented
MaxStored == 2      \* most blocks of a document that is republished

(***************************************************************************)
(* Generic helpers                                                         *)
(***************************************************************************)
None == -1          \* Python's None in an index position

At(s, i) == s[i + 1]

Range(s) == {s[k] : k \in 1..Len(s)}

Min(x, y) == IF x <= y THEN x ELSE y

SetMax(S) == CHOOSE x \in S : \A y \in S : y <= x

SetMin(S) == CHOOSE x \in S : \A y \in S : x <= y

SeqsUpTo(S, n) == UNION {[1..k -> S] : k \in 0..n}

\* range(lo, hi) as a sequence
RangeSeq(lo, hi) == [k \in 1..(IF hi > lo THEN hi - lo ELSE 0) |-> lo + k - 1]

(***************************************************************************)
(* difflib.SequenceMatcher as used by _align_blocks.  No junk predicate is *)
(* passed and the automatic junk heuristic only applies to sequences of    *)
(* 200 items or more, so every item of b is indexed.                       *)
(***************************************************************************)
Items == {"a", "b", "c", "x"}

\* A buggy block test that only compares the first items of the two runs.
IsMatchFirstOnly(a, b, i, j, k) == At(a, i) = At(b, j)

\* a[i:i+k] == b[j:j+k]
IsMatch(a, b, i, j, k) == \A t \in 0..(k - 1) : At(a, i + t) = At(b, j + t)

\* SequenceMatcher.find_longest_match(alo, ahi, blo, bhi): the longest block
\* a[i:i+k] == b[j:j+k] inside the window; of the longest blocks the one that
\* starts earliest in a, and of those the one that starts earliest in b.
find_longest_match(a, b, alo, ahi, blo, bhi) ==
    LET cands == {c \in (alo..(ahi - 1)) \X (blo..(bhi - 1)) \X (1..(ahi - alo)) :
                    /\ c[1] + c[3] <= ahi
                    /\ c[2] + c[3] <= bhi
                    /\ IsMatch(a, b, c[1], c[2], c[3])}
    IN  IF cands = {} THEN <<alo, blo, 0>>
        ELSE LET bestsize == SetMax({c[3] : c \in cands})
                 besti == SetMin({c[1] : c \in {d \in cands : d[3] = bestsize}})
                 bestj == SetMin({c[2] : c \in {d \in cands :
                                        d[3] = bestsize /\ d[1] = besti}})
             IN  <<besti, bestj, bestsize>>

\* The recursion of SequenceMatcher.get_matching_blocks: the block of the
\* window, the blocks to its left and the blocks to its right, in sorted order.
RECURSIVE matching_blocks_in(_, _, _, _, _, _)
matching_blocks_in(a, b, alo, ahi, blo, bhi) ==
    LET m == find_longest_match(a, b, alo, ahi, blo, bhi)
        i == m[1]
        j == m[2]
        k == m[3]
    IN  IF k = 0 THEN <<>>
        ELSE (IF alo < i /\ blo < j
                 THEN matching_blocks_in(a, b, alo, i, blo, j) ELSE <<>>)
             \o <<m>>
             \o (IF i + k < ahi /\ j + k < bhi
                 THEN matching_blocks_in(a, b, i + k, ahi, j + k, bhi) ELSE <<>>)

\* Adjacent blocks are collapsed into one.
RECURSIVE collapse_adjacent(_, _)
collapse_adjacent(blocks, cur) ==
    IF blocks = <<>> THEN (IF cur[3] > 0 THEN <<cur>> ELSE <<>>)
    ELSE LET nxt == Head(blocks)
         IN  IF cur[1] + cur[3] = nxt[1] /\ cur[2] + cur[3] = nxt[2]
             THEN collapse_adjacent(Tail(blocks), <<cur[1], cur[2], cur[3] + nxt[3]>>)
             ELSE (IF cur[3] > 0 THEN <<cur>> ELSE <<>>)
                  \o collapse_adjacent(Tail(blocks), nxt)

\* SequenceMatcher.get_matching_blocks(): ends with the sentinel (la, lb, 0).
get_matching_blocks(a, b) ==
    collapse_adjacent(matching_blocks_in(a, b, 0, Len(a), 0, Len(b)), <<0, 0, 0>>)
    \o <<<<Len(a), Len(b), 0>>>>

Opcode(tag, a0, a1, b0, b1) == [tag |-> tag, a0 |-> a0, a1 |-> a1, b0 |-> b0, b1 |-> b1]

\* SequenceMatcher.get_opcodes(): walk the matching blocks from (i, j).
RECURSIVE opcodes_from(_, _, _)
opcodes_from(blocks, i, j) ==
    IF blocks = <<>> THEN <<>>
    ELSE LET ai == Head(blocks)[1]
             bj == Head(blocks)[2]
             size == Head(blocks)[3]
             gap == IF i < ai /\ j < bj THEN <<Opcode("replace", i, ai, j, bj)>>
                    ELSE IF i < ai THEN <<Opcode("delete", i, ai, j, bj)>>
                    ELSE IF j < bj THEN <<Opcode("insert", i, ai, j, bj)>>
                    ELSE <<>>
             eq == IF size > 0
                   THEN <<Opcode("equal", ai, ai + size, bj, bj + size)>>
                   ELSE <<>>
         IN  gap \o eq \o opcodes_from(Tail(blocks), ai + size, bj + size)

get_opcodes(a, b) == opcodes_from(get_matching_blocks(a, b), 0, 0)

(***************************************************************************)
(* _align_blocks (views/proofing/publish.py)                               *)
(***************************************************************************)
\* A replace region handled as a delete of the old run followed by an insert
\* of the new run.
pairs_of_opcode_delete_insert(op) ==
    IF op.tag = "equal"
    THEN [k \in 1..(op.a1 - op.a0) |-> <<op.a0 + k - 1, op.b0 + k - 1>>]
    ELSE IF op.tag = "insert"
    THEN [k \in 1..(op.b1 - op.b0) |-> <<None, op.b0 + k - 1>>]
    ELSE [k \in 1..(op.a1 - op.a0) |-> <<op.a0 + k - 1, None>>]
         \o [k \in 1..(op.b1 - op.b0) |-> <<None, op.b0 + k - 1>>]

\* A replace region that pairs its common part and forgets the remainder of
\* the longer side.
pairs_of_opcode_common_only(op) ==
    IF op.tag = "equal" \/ op.tag = "replace"
    THEN [k \in 1..Min(op.a1 - op.a0, op.b1 - op.b0) |->
            <<op.a0 + k - 1, op.b0 + k - 1>>]
    ELSE IF op.tag = "delete"
    THEN [k \in 1..(op.a1 - op.a0) |-> <<op.a0 + k - 1, None>>]
    ELSE IF op.tag = "insert"
    THEN [k \in 1..(op.b1 - op.b0) |-> <<None, op.b0 + k - 1>>]
    ELSE <<>>

\* The body of the loop over the opcodes: the pairs one opcode contributes.
pairs_of_opcode(op) ==
    IF op.tag = "equal"
    THEN [k \in 1..Min(op.a1 - op.a0, op.b1 - op.b0) |->
            <<op.a0 + k - 1, op.b0 + k - 1>>]
    ELSE IF op.tag = "replace"
    THEN LET a_len == op.a1 - op.a0
             b_len == op.b1 - op.b0
             common == Min(a_len, b_len)
         IN  [k \in 1..common |-> <<op.a0 + k - 1, op.b0 + k - 1>>]
             \o [k \in 1..(a_len - common) |-> <<op.a0 + common + k - 1, None>>]
             \o [k \in 1..(b_len - common) |-> <<None, op.b0 + common + k - 1>>]
    ELSE IF op.tag = "delete"
    THEN [k \in 1..(op.a1 - op.a0) |-> <<op.a0 + k - 1, None>>]
    ELSE IF op.tag = "insert"
    THEN [k \in 1..(op.b1 - op.b0) |-> <<None, op.b0 + k - 1>>]
    ELSE <<>>

RECURSIVE pairs_of_opcodes(_)
pairs_of_opcodes(ops) ==
    IF ops = <<>> THEN <<>>
    ELSE pairs_of_opcode(Head(ops)) \o pairs_of_opcodes(Tail(ops))

_align_blocks(old, new) == pairs_of_opcodes(get_opcodes(old, new))

(***************************************************************************)
(* Proofing XML (utils/xml_validation.py).  A content string is modelled   *)
(* by what the XML parser makes of it: kind "xml" with the elements of the *)
(* document in document order, each with its tag, its attribute names in   *)
(* order, the lines of its text and the index of its parent (0 for the     *)
(* root); kind "text" for a string that is not well-formed XML; kind       *)
(* "empty" for the empty string.                                           *)
(***************************************************************************)
BlockType == {"p", "verse", "footnote", "heading", "trailer", "title",
              "subtitle", "ignore", "metadata"}

InlineType == {"error", "fix", "speaker", "stage", "ref", "flag", "chaya",
               "prakrit", "note", "add", "ellipsis"}

ValidationSpec(children, attrib) == [children |-> children, attrib |-> attrib]

CORE_INLINE_TYPES == InlineType

\* A table in which an inline mark admits no inline mark inside it.
PROOFING_XML_VALIDATION_SPEC_flat_marks ==
    [tag \in {"page"} \cup BlockType \cup InlineType |->
        IF tag = "page" THEN ValidationSpec(BlockType, {})
        ELSE IF tag \in BlockType \ {"metadata"}
        THEN ValidationSpec(CORE_INLINE_TYPES, {"lang", "text", "n", "mark", "merge-next", "merge-text"})
        ELSE ValidationSpec({}, {})]

PROOFING_XML_VALIDATION_SPEC ==
    [tag \in {"page"} \cup BlockType \cup InlineType |->
        IF tag = "page" THEN ValidationSpec(BlockType, {})
        ELSE IF tag \in {"p", "verse"}
        THEN ValidationSpec(CORE_INLINE_TYPES, {"lang", "text", "n", "merge-next", "merge-text"})
        ELSE IF tag = "footnote"
        THEN ValidationSpec(CORE_INLINE_TYPES, {"lang", "text", "mark"})
        ELSE IF tag \in {"heading", "trailer", "title", "subtitle"}
        THEN ValidationSpec(CORE_INLINE_TYPES, {"lang", "text", "n"})
        ELSE IF tag = "ignore"
        THEN ValidationSpec(CORE_INLINE_TYPES, {"lang", "text"})
        ELSE IF tag = "metadata"
        THEN ValidationSpec({}, {})
        ELSE ValidationSpec(InlineType, {})]

METADATA_FIELDS == {"speaker", "div.title", "div.n"}

Element(tag, attrib, text, parent) ==
    [tag |-> tag, attrib |-> attrib, text |-> text, parent |-> parent]

XmlContent(nodes) == [kind |-> "xml", nodes |-> nodes]
TextContent == [kind |-> "text", nodes |-> <<>>]
EmptyContent == [kind |-> "empty", nodes |-> <<>>]

\* A ValidationResult.error: the kind of message, the name it quotes (a tag,
\* an attribute, a metadata key or line), the element it is reported on and
\* the path of that element.
Error(kind, name, tag, path) ==
    [type |-> "error", kind |-> kind, name |-> name, tag |-> tag, path |-> path]

\* A line of a metadata block after strip(): "=" in line, and the key that
\* line.partition("=") gives.
MetadataLines == {"", "speaker=rama", "bogus=1", "no separator"}

HasEquals(line) == line \in {"speaker=rama", "bogus=1"}

KeyOf(line) == IF line = "speaker=rama" THEN "speaker"
               ELSE IF line = "bogus=1" THEN "bogus"
               ELSE line

RECURSIVE validate_metadata_from(_, _)
validate_metadata_from(lines, i) ==
    IF lines = <<>> THEN <<>>
    ELSE LET line == Head(lines)
             rest == validate_metadata_from(Tail(lines), i + 1)
         IN  IF line = "" THEN rest
             ELSE IF ~HasEquals(line)
             THEN <<Error("metadata-format", line, "metadata", <<i>>)>> \o rest
             ELSE IF KeyOf(line) \notin METADATA_FIELDS
             THEN <<Error("metadata-field", KeyOf(line), "metadata", <<i>>)>> \o rest
             ELSE rest

validate_metadata(text) == validate_metadata_from(text, 1)

\* The indexes of the children of element x, in document order.
ChildrenOf(nodes, x) ==
    LET idx == {c \in 1..Len(nodes) : nodes[c].parent = x}
        RECURSIVE Ordered(_)
        Ordered(S) == IF S = {} THEN <<>>
                      ELSE <<SetMin(S)>> \o Ordered(S \ {SetMin(S)})
    IN  Ordered(idx)

\* for attr in el.attrib: if attr not in spec.attrib
RECURSIVE attrib_errors(_, _, _, _)
attrib_errors(attrs, spec, tag, current_path) ==
    IF attrs = <<>> THEN <<>>
    ELSE (IF Head(attrs) \notin spec.attrib
          THEN <<Error("attribute", Head(attrs), tag, current_path)>>
          ELSE <<>>)
         \o attrib_errors(Tail(attrs), spec, tag, current_path)

\* A validation of one element that reports on its attributes and its
\* children but does not descend into the children.
_validate_element_no_descent(nodes, x, path, specs) ==
    LET tag == nodes[x].tag
        current_path == Append(path, tag)
        kids == ChildrenOf(nodes, x)
    IN  IF tag \notin DOMAIN specs
        THEN <<Error("unknown", tag, tag, current_path)>>
        ELSE attrib_errors(nodes[x].attrib, specs[tag], tag, current_path)
             \o SelectSeq([k \in 1..Len(kids) |->
                              Error("child", nodes[kids[k]].tag, tag, current_path)],
                          LAMBDA e : e.name \notin specs[tag].children)

\* validate_xml._validate_element(el, path)
RECURSIVE _validate_element(_, _, _, _)
_validate_element(nodes, x, path, specs) ==
    LET tag == nodes[x].tag
        current_path == Append(path, tag)
        RECURSIVE child_errors(_)
        child_errors(kids) ==
            IF kids = <<>> THEN <<>>
            ELSE (IF nodes[Head(kids)].tag \notin specs[tag].children
                  THEN <<Error("child", nodes[Head(kids)].tag, tag, current_path)>>
                  ELSE <<>>)
                 \o _validate_element(nodes, Head(kids), current_path, specs)
                 \o child_errors(Tail(kids))
    IN  IF tag \notin DOMAIN specs
        THEN <<Error("unknown", tag, tag, current_path)>>
        ELSE attrib_errors(nodes[x].attrib, specs[tag], tag, current_path)
             \o child_errors(ChildrenOf(nodes, x))

validate_xml(nodes, specs) == _validate_element(nodes, 1, <<>>, specs)

\* The metadata blocks of the page are checked line by line.
RECURSIVE metadata_errors(_, _)
metadata_errors(nodes, kids) ==
    IF kids = <<>> THEN <<>>
    ELSE (IF nodes[Head(kids)].tag = "metadata"
          THEN validate_metadata(nodes[Head(kids)].text) ELSE <<>>)
         \o metadata_errors(nodes, Tail(kids))

\* A validation that goes on after reporting a wrong root tag.
validate_proofing_xml_no_return(c) ==
    IF c.kind # "xml"
    THEN <<Error("parse", "", "", <<>>)>>
    ELSE (IF c.nodes[1].tag # "page"
          THEN <<Error("root", "page", c.nodes[1].tag, <<>>)>> ELSE <<>>)
         \o validate_xml(c.nodes, PROOFING_XML_VALIDATION_SPEC)
         \o metadata_errors(c.nodes, ChildrenOf(c.nodes, 1))

validate_proofing_xml(c) ==
    IF c.kind # "xml"
    THEN <<Error("parse", "", "", <<>>)>>
    ELSE IF c.nodes[1].tag # "page"
    THEN <<Error("root", "page", c.nodes[1].tag, <<>>)>>
    ELSE validate_xml(c.nodes, PROOFING_XML_VALIDATION_SPEC)
         \o metadata_errors(c.nodes, ChildrenOf(c.nodes, 1))

(***************************************************************************)
(* Validation scenario: any small document is validated once.              *)
(***************************************************************************)
\* The root elements and the inner elements documents are drawn from.
RootElements ==
    {Element(t, a, <<>>, 0) : t \in {"page", "foo", "p"}, a \in {<<>>, <<"zz">>}}

InnerElements ==
    {Element(t, a, <<>>, 0) : t \in {"p", "error", "unk"},
                              a \in {<<>>, <<"n">>, <<"zz">>}}
    \cup {Element("metadata", <<>>, <<l>>, 0) : l \in {"speaker=rama", "bogus=1"}}
    \cup {Element("metadata", <<"zz">>, <<>>, 0)}

\* The parents of the elements 2..n of a document: an element is the child
\* of an element before it.
Parents(n) == {ps \in [2..n -> 1..(MaxNodes - 1)] : \A k \in 2..n : ps[k] < k}

\* A page with one block that holds a mark with a mark directly inside it.
NestedMarksPage(block_type, outer, inner) ==
    XmlContent(<<Element("page", <<>>, <<>>, 0), Element(block_type, <<>>, <<>>, 1),
                 Element(outer, <<>>, <<>>, 2), Element(inner, <<>>, <<>>, 3)>>)

\* The document of the root r and the inner elements es under the parents ps.
Document(n, r, es, ps) ==
    XmlContent([k \in 1..n |->
                   IF k = 1 THEN r ELSE [es[k] EXCEPT !.parent = ps[k]]])

Validate ==
    /\ pc = "validate_start"
    /\ results' = validate_proofing_xml(content)
    /\ pc' = "validated"
    /\ UNCHANGED <<content, alignVars, proofVars, publishVars, rewriteVars,
                   filterVars, structVars, diffVars>>

NextValidate == Validate

(***************************************************************************)
(* The editing loop: direct saves, suggestions and their review            *)
(* (views/api.py, views/proofing/page.py, views/proofing/suggestions.py).  *)
(* One page of one project is edited; a request is handled atomically.     *)
(***************************************************************************)
Users == {"anonymous", "member", "p1"}

is_authenticated(user) == user # "anonymous"

is_p1(user) == user = "p1"

PageStatuses == {"reviewed-0", "reviewed-1"}

MissingContent == [kind |-> "missing", nodes |-> <<>>]

\* The page contents that requests carry.
ValidPageA == XmlContent(<<Element("page", <<>>, <<>>, 0), Element("p", <<>>, <<>>, 1)>>)
ValidPageB == XmlContent(<<Element("page", <<>>, <<>>, 0), Element("verse", <<"n">>, <<>>, 1)>>)
InvalidPage == XmlContent(<<Element("page", <<>>, <<>>, 0), Element("unk", <<>>, <<>>, 1)>>)

\* What a proofreader's save or edit form submits, what the form of a user
\* without proofreader rights submits, and what a review submits.
RequestContents == {ValidPageA, ValidPageB, InvalidPage, EmptyContent}

SuggestedContents == {ValidPageA, InvalidPage, EmptyContent}

ContentsFrom(user) == IF user = "p1" THEN RequestContents ELSE SuggestedContents

ReviewContents == {ValidPageB, InvalidPage, MissingContent}

Revision(id, c, status) == [id |-> id, content |-> c, status |-> status]

Suggestion(revision_id, c) ==
    [revision_id |-> revision_id, content |-> c, status |-> "PENDING"]

\* revisions.add_revision: the page moves from `version` to `version + 1` and
\* gets a new latest revision, unless the page is no longer at `version`, in
\* which case EditError is raised and nothing is stored.
add_revision(revs, cur_version, cur_status, c, status, version) ==
    IF version # cur_version
    THEN [raised |-> TRUE, revisions |-> revs, version |-> cur_version,
          status |-> cur_status]
    ELSE [raised |-> FALSE,
          revisions |-> Append(revs, Revision(Len(revs) + 1, c, status)),
          version |-> version + 1, status |-> status]

\* The edit conflict an answer carries: conflict = cur.revisions[-1] and
\* cur.version.
Conflict(c, version) == [content |-> c, version |-> version]

NoConflict == [content |-> MissingContent, version |-> None]

\* cur.revisions[-1].content if cur.revisions else None
latest_content == IF revisions = <<>> THEN MissingContent
                  ELSE revisions[Len(revisions)].content

\* The direct-save flow when the revision is added at the page's current
\* version, whatever version the form carries.
SaveDirectly_at_current_version(c, version, status) ==
    LET has_changed == latest_content # c \/ page_status # status
        r == add_revision(revisions, page_version, page_status, c, status,
                          page_version)
    IN  IF ~has_changed
        THEN /\ response' = "skipped"
             /\ conflict' = NoConflict
             /\ UNCHANGED <<revisions, page_version, page_status, suggestions>>
        ELSE /\ response' = "saved"
             /\ conflict' = NoConflict
             /\ revisions' = r.revisions
             /\ page_version' = r.version
             /\ page_status' = r.status
             /\ UNCHANGED suggestions

\* The direct-save flow shared by page_save_api and edit_post.
SaveDirectly(c, version, status) ==
    LET has_changed == latest_content # c \/ page_status # status
        r == add_revision(revisions, page_version, page_status, c, status, version)
    IN  IF ~has_changed
        THEN /\ response' = "skipped"
             /\ conflict' = NoConflict
             /\ UNCHANGED <<revisions, page_version, page_status, suggestions>>
        ELSE IF r.raised
        THEN /\ response' = "conflict"
             /\ conflict' = Conflict(latest_content, page_version)
             /\ UNCHANGED <<revisions, page_version, page_status, suggestions>>
        ELSE /\ response' = "saved"
             /\ conflict' = NoConflict
             /\ revisions' = r.revisions
             /\ page_version' = r.version
             /\ page_status' = r.status
             /\ UNCHANGED suggestions

\* The suggestion flow shared by page_save_api and edit_post.
Suggest(user, c) ==
    IF revisions = <<>>
    THEN /\ response' = "no-revisions"
         /\ conflict' = NoConflict
         /\ UNCHANGED <<revisions, page_version, page_status, suggestions>>
    ELSE /\ suggestions' = Append(suggestions,
                                  Suggestion(revisions[Len(revisions)].id, c))
         /\ response' = "suggested"
         /\ conflict' = NoConflict
         /\ UNCHANGED <<revisions, page_version, page_status>>

Rejected(answer) ==
    /\ response' = answer
    /\ conflict' = NoConflict
    /\ UNCHANGED <<revisions, page_version, page_status, suggestions>>

\* POST /api/proofing/<project>/<page>/save
page_save_api(user, c, version, status) ==
    IF c.kind = "empty" THEN Rejected("content-required")
    ELSE IF validate_proofing_xml(c) # <<>> THEN Rejected("invalid-xml")
    ELSE IF is_authenticated(user) /\ is_p1(user) THEN SaveDirectly(c, version, status)
    ELSE IF is_authenticated(user) THEN Suggest(user, c)
    ELSE Rejected("401")

\* POST /proofing/<project>/<page>/ with EditPageForm
edit_post(user, c, version, status) ==
    IF c.kind = "empty" \/ validate_proofing_xml(c) # <<>> THEN Rejected("form-errors")
    ELSE IF is_authenticated(user) /\ is_p1(user) THEN SaveDirectly(c, version, status)
    ELSE Suggest(user, c)

\* The checks without the one on the suggestion's status.
ReviewRefusal_any_status(user, id) ==
    IF ~is_p1(user) THEN "redirect-login"
    ELSE IF id \notin DOMAIN suggestions THEN "not-found"
    ELSE IF revisions = <<>> \/ revisions[Len(revisions)].id # suggestions[id].revision_id
    THEN "stale"
    ELSE ""

\* The checks without the one on the suggestion's base revision.
ReviewRefusal_any_revision(user, id) ==
    IF ~is_p1(user) THEN "redirect-login"
    ELSE IF id \notin DOMAIN suggestions THEN "not-found"
    ELSE IF suggestions[id].status # "PENDING" THEN "already-processed"
    ELSE ""

\* The checks accept and submit_review share before they store anything:
\* "" when the suggestion may be accepted, else the answer.
ReviewRefusal(user, id) ==
    IF ~is_p1(user) THEN "redirect-login"
    ELSE IF id \notin DOMAIN suggestions THEN "not-found"
    ELSE IF suggestions[id].status # "PENDING" THEN "already-processed"
    ELSE IF revisions = <<>> \/ revisions[Len(revisions)].id # suggestions[id].revision_id
    THEN "stale"
    ELSE ""

\* Closing the suggestion without storing a revision.
AcceptWith_no_revision(id, c) ==
    /\ suggestions' = [suggestions EXCEPT ![id].status = "ACCEPTED"]
    /\ response' = "accepted"
    /\ conflict' = NoConflict
    /\ UNCHANGED <<revisions, page_version, page_status>>

\* Storing the accepted content as a new revision and closing the suggestion.
AcceptWith(id, c) ==
    LET r == add_revision(revisions, page_version, page_status, c,
                          revisions[Len(revisions)].status, page_version)
    IN  /\ revisions' = r.revisions
        /\ page_version' = r.version
        /\ page_status' = r.status
        /\ suggestions' = [suggestions EXCEPT ![id].status = "ACCEPTED"]
        /\ response' = "accepted"
        /\ conflict' = NoConflict

\* POST /proofing/suggestions/<id>/accept
accept(user, id) ==
    IF ReviewRefusal(user, id) # "" THEN Rejected(ReviewRefusal(user, id))
    ELSE AcceptWith(id, suggestions[id].content)

\* POST /proofing/suggestions/<id>/submit-review
submit_review(user, id, c) ==
    IF ReviewRefusal(user, id) # ""
    THEN Rejected(IF ReviewRefusal(user, id) = "stale" THEN "409"
                  ELSE IF ReviewRefusal(user, id) = "already-processed" THEN "400"
                  ELSE IF ReviewRefusal(user, id) = "not-found" THEN "404"
                  ELSE ReviewRefusal(user, id))
    ELSE IF c.kind = "missing" THEN Rejected("400-missing-content")
    ELSE AcceptWith(id, c)

\* POST /proofing/suggestions/<id>/reject
reject(user, id) ==
    IF ~is_p1(user) THEN Rejected("redirect-login")
    ELSE IF id \notin DOMAIN suggestions THEN Rejected("not-found")
    ELSE IF suggestions[id].status # "PENDING" THEN Rejected("already-processed")
    ELSE /\ suggestions' = [suggestions EXCEPT ![id].status = "REJECTED"]
         /\ response' = "rejected"
         /\ conflict' = NoConflict
         /\ UNCHANGED <<revisions, page_version, page_status>>

(***************************************************************************)
(* Editing scenario: any sequence of requests on a page that starts with   *)
(* no revisions.                                                           *)
(***************************************************************************)
\* The version a form carries: the page's version when the form was loaded,
\* which is the current one or the one before it.
Versions == {v \in 0..MaxRevisions : v + 1 >= page_version /\ v <= page_version}

\* Requests that would outgrow the bounds of the scenario are not made.
WithinBounds ==
    Len(revisions') <= MaxRevisions /\ Len(suggestions') <= MaxSuggestions

PageSave ==
    /\ pc = "serving"
    /\ \E user \in Users : \E c \in ContentsFrom(user), version \in Versions,
                               status \in PageStatuses :
            page_save_api(user, c, version, status)
    /\ WithinBounds
    /\ UNCHANGED <<pc, alignVars, validateVars, publishVars, rewriteVars,
                   filterVars, structVars, diffVars>>

EditPost ==
    /\ pc = "serving"
    /\ \E user \in Users : \E c \in ContentsFrom(user), version \in Versions,
                               status \in PageStatuses :
            edit_post(user, c, version, status)
    /\ WithinBounds
    /\ UNCHANGED <<pc, alignVars, validateVars, publishVars, rewriteVars,
                   filterVars, structVars, diffVars>>

Accept ==
    /\ pc = "serving"
    /\ \E user \in Users, id \in 1..MaxSuggestions : accept(user, id)
    /\ WithinBounds
    /\ UNCHANGED <<pc, alignVars, validateVars, publishVars, rewriteVars,
                   filterVars, structVars, diffVars>>

SubmitReview ==
    /\ pc = "serving"
    /\ \E user \in Users, id \in 1..MaxSuggestions,
          c \in ReviewContents : submit_review(user, id, c)
    /\ WithinBounds
    /\ UNCHANGED <<pc, alignVars, validateVars, publishVars, rewriteVars,
                   filterVars, structVars, diffVars>>

Reject ==
    /\ pc = "serving"
    /\ \E user \in Users, id \in 1..MaxSuggestions : reject(user, id)
    /\ WithinBounds
    /\ UNCHANGED <<pc, alignVars, validateVars, publishVars, rewriteVars,
                   filterVars, structVars, diffVars>>

NextProof == PageSave \/ EditPost \/ Accept \/ SubmitReview \/ Reject

(***************************************************************************)
(* Ordering keys (utils/text_publishing.py).  A key such as "1.2" or "p1"  *)
(* is modelled as the sequence of its characters.                          *)
(***************************************************************************)
NoKey == <<>>

NoBlock == [tag |-> "", text |-> "", children |-> <<>>]

Digits == <<"0", "1", "2", "3", "4", "5", "6", "7", "8", "9">>

IsDigit(c) == \E d \in 1..Len(Digits) : Digits[d] = c

DigitValue(c) == (CHOOSE d \in 1..Len(Digits) : Digits[d] = c) - 1

\* int(s) of a string of digits
RECURSIVE ToInt(_)
ToInt(ds) ==
    IF ds = <<>> THEN 0
    ELSE ToInt(SubSeq(ds, 1, Len(ds) - 1)) * Len(Digits) + DigitValue(ds[Len(ds)])

\* str(k) of a natural number
RECURSIVE ToStr(_)
ToStr(k) ==
    IF k < Len(Digits) THEN <<Digits[k + 1]>>
    ELSE ToStr(k \div Len(Digits)) \o <<Digits[(k % Len(Digits)) + 1]>>

\* The number of digits a key ends with.
RECURSIVE NumericSuffixLen(_)
NumericSuffixLen(key) ==
    IF key = <<>> \/ ~IsDigit(key[Len(key)]) THEN 0
    ELSE 1 + NumericSuffixLen(SubSeq(key, 1, Len(key) - 1))

\* An increment that forgets what precedes the numeric suffix.
next_key_without_prefix(prev) ==
    LET d == NumericSuffixLen(prev)
    IN  IF d = 0 THEN <<"2">>
        ELSE ToStr(ToInt(SubSeq(prev, Len(prev) - d + 1, Len(prev))) + 1)

\* The key after `prev`: the numeric suffix is incremented and what precedes
\* it is kept; a key without a numeric suffix gets the suffix 2.
next_key(prev) ==
    LET d == NumericSuffixLen(prev)
    IN  IF d = 0 THEN prev \o <<"2">>
        ELSE SubSeq(prev, 1, Len(prev) - d)
             \o ToStr(ToInt(SubSeq(prev, Len(prev) - d + 1, Len(prev))) + 1)

\* The key of an unkeyed block that no keyed block of its counter precedes.
DefaultKey == <<"1">>

(***************************************************************************)
(* The cross-page assembler (utils/text_publishing.py,                     *)
(* create_tei_document).  The pages of the project are walked in order and *)
(* every block of a page is rewritten and either opens a new output block  *)
(* or continues the output block that the previous page left open.  The    *)
(* text of a proofing block is modelled by where it comes from.            *)
(***************************************************************************)
BlockTypes == {"p", "verse"}

\* A proofing block: its tag, its n attribute, its merge-next attribute and
\* whether it contains a speaker mark.
ProofBlock(type, n, merge_next, speaker) ==
    [type |-> type, n |-> n, merge_next |-> merge_next, speaker |-> speaker]

\* The rewritten tag of a block.
tei_tag(type) == IF type = "verse" THEN "lg" ELSE type

\* A node of the rewritten XML: an element with its n attribute and its
\* content, or the text of block `index` of page `page`.
Node(kind, tag, n, page, index, body) ==
    [kind |-> kind, tag |-> tag, n |-> n, page |-> page, index |-> index,
     body |-> body]

Fragment(page, k) == Node("text", "", NoKey, page, k, <<>>)

\* <pb n="-" />
PageBreak == Node("element", "pb", <<"-">>, None, None, <<>>)

\* <speaker>...</speaker>
Speaker == Node("element", "speaker", NoKey, None, None, <<>>)

\* <tag n="...">body</tag>
Element_n(tag, n, body) == Node("element", tag, n, None, None, body)

\* The n attribute of the speech wrapper of the block keyed n.
speaker_slug(n) == <<"s", "p">> \o n

\* The rewritten block: <tag n="...">body</tag>, which a speaker mark
\* promotes to <sp n="sp..."><speaker/><tag n="...">body</tag></sp>.
TEIXml(tag, n, speaker, body) ==
    IF speaker
    THEN Element_n("sp", speaker_slug(n), <<Speaker, Element_n(tag, n, body)>>)
    ELSE Element_n(tag, n, body)

TEIBlock(xml, slug, block_page_id) ==
    [xml |-> xml, slug |-> slug, page_id |-> block_page_id]

\* One counter for all block types.
counter_of_any(type) == "p"

\* The counter that the ordering keys of a block type are derived from.
counter_of(type) == type

\* The ordering key of a block: its own, or the one after the latest key of
\* its counter.
block_key(b, last) ==
    IF b.n # NoKey THEN b.n
    ELSE IF last[counter_of(b.type)] = NoKey THEN DefaultKey
    ELSE next_key(last[counter_of(b.type)])

\* A concatenation that leaves no trace of the page boundary.
join_fragments_without_marker(body, fragment) == Append(body, fragment)

\* The concatenation across a page boundary.
join_fragments(body, fragment) == body \o <<PageBreak, fragment>>

\* The continuation goes into the block itself, which is the second child
\* of a speech wrapper.
concatenate(xml, fragment) ==
    IF xml.tag = "sp"
    THEN [xml EXCEPT !.body[2].body = join_fragments(@, fragment)]
    ELSE [xml EXCEPT !.body = join_fragments(@, fragment)]

Pending(tag, n, index, page) == [tag |-> tag, n |-> n, index |-> index, page |-> page]

\* The page that is being walked and the blocks read from it so far.
page_id == Len(pages) - 1

blocks_read == Len(pages[Len(pages)])

\* The step of the walk for block b, the next block of the current page.
assemble_block(b) ==
    LET key == block_key(b, last_n)
        tag == tei_tag(b.type)
        fragment == Fragment(page_id, blocks_read)
        open == {e \in pending : e.tag = tag /\ e.n = key /\ e.page = page_id - 1}
        others == {e \in pending : ~(e.tag = tag /\ e.n = key)}
    IN  /\ pages' = [pages EXCEPT ![Len(pages)] = Append(@, b)]
        /\ last_n' = [last_n EXCEPT ![counter_of(b.type)] = key]
        /\ IF open # {}
           THEN LET e == CHOOSE e \in open : TRUE
                IN  /\ tei_blocks' =
                          [tei_blocks EXCEPT ![e.index].xml = concatenate(@, fragment)]
                    /\ pending' = others \cup
                          (IF b.merge_next
                           THEN {Pending(tag, key, e.index, page_id)} ELSE {})
           ELSE /\ tei_blocks' = Append(tei_blocks,
                          TEIBlock(TEIXml(tag, key, b.speaker, <<fragment>>),
                                   TEIXml(tag, key, b.speaker, <<fragment>>).n,
                                   page_id))
                /\ pending' = others \cup
                          (IF b.merge_next
                           THEN {Pending(tag, key, Len(tei_blocks) + 1, page_id)}
                           ELSE {})

(***************************************************************************)
(* The stored text (views/proofing/publish.py, create) and its validation  *)
(* report (utils/text_validation.py).                                      *)
(***************************************************************************)
TextBlock(id, section_id, slug, xml, n, block_page_id) ==
    [id |-> id, section_id |-> section_id, slug |-> slug, xml |-> xml, n |-> n,
     page_id |-> block_page_id]

\* The loop of create over the alignment: a paired record is updated in
\* place, an unpaired old record is deleted, an unpaired new block is added.
RECURSIVE apply_alignment(_, _, _, _, _, _)
apply_alignment(pairs, existing_blocks_list, new_doc_blocks, block_sections, block_index, next_id) ==
    IF pairs = <<>> THEN <<>>
    ELSE LET old_idx == Head(pairs)[1]
             new_idx == Head(pairs)[2]
         IN  IF old_idx # None /\ new_idx # None
             THEN LET doc_block == At(new_doc_blocks, new_idx)
                  IN  <<TextBlock(At(existing_blocks_list, old_idx).id,
                                  At(block_sections, new_idx), doc_block.slug,
                                  doc_block.xml, block_index + 1, doc_block.page_id)>>
                      \o apply_alignment(Tail(pairs), existing_blocks_list,
                                         new_doc_blocks, block_sections,
                                         block_index + 1, next_id)
             ELSE IF old_idx # None
             THEN apply_alignment(Tail(pairs), existing_blocks_list,
                                  new_doc_blocks, block_sections, block_index, next_id)
             ELSE LET doc_block == At(new_doc_blocks, new_idx)
                  IN  <<TextBlock(next_id, At(block_sections, new_idx), doc_block.slug,
                                  doc_block.xml, block_index + 1, doc_block.page_id)>>
                      \o apply_alignment(Tail(pairs), existing_blocks_list,
                                         new_doc_blocks, block_sections,
                                         block_index + 1, next_id + 1)

\* The primary key that the table gives the next record that is added to
\* the records `rows`.
next_id_of(rows) ==
    IF rows = <<>> THEN 1 ELSE SetMax({rows[k].id : k \in 1..Len(rows)}) + 1

\* A republish that pairs nothing: every old record is deleted and every
\* block of the document is added as a new record.
create_delete_and_insert(existing_blocks_list, new_doc_blocks, block_sections, next_id) ==
    apply_alignment([k \in 1..(Len(existing_blocks_list) + Len(new_doc_blocks)) |->
                        IF k <= Len(existing_blocks_list)
                        THEN <<k - 1, None>>
                        ELSE <<None, k - Len(existing_blocks_list) - 1>>],
                    existing_blocks_list, new_doc_blocks, block_sections, 0, next_id)

\* The records of the text that the session of create holds when its loop
\* is over, in the order of the document: the updated and the added ones.
\* The first added record gets the key next_id.
create(existing_blocks_list, new_doc_blocks, block_sections, next_id) ==
    LET old_xmls == [k \in 1..Len(existing_blocks_list) |-> existing_blocks_list[k].xml]
        new_xmls == [k \in 1..Len(new_doc_blocks) |-> new_doc_blocks[k].xml]
    IN  apply_alignment(_align_blocks(old_xmls, new_xmls), existing_blocks_list,
                        new_doc_blocks, block_sections, 0, next_id)

\* The records `rows` in the order of the query of create: by n, and by
\* key among equal n.
RECURSIVE order_by_n(_)
order_by_n(rows) ==
    IF rows = {} THEN <<>>
    ELSE LET first == CHOOSE r \in rows :
                        \A q \in rows : r.n < q.n \/ (r.n = q.n /\ r.id <= q.id)
         IN  <<first>> \o order_by_n(rows \ {first})

\* The columns of a record that create assigns.
assigned_columns == {"section_id", "slug", "xml", "n", "page_id"}

\* The stored record `row` after the UPDATE that writes the columns in
\* which the record `held` of the session differs from the record `read`
\* that the session loaded.
update(row, read, held) ==
    [c \in DOMAIN row |->
        IF c \in assigned_columns /\ held[c] # read[c] THEN held[c] ELSE row[c]]

\* session.flush() and session.commit() of create, against the records
\* `stored` that the table holds by then: the records of the session that
\* differ from what the session read are updated in the columns that
\* differ, the records it read and no longer holds are deleted, the
\* records it made are added.  An update of a record that is no longer
\* stored fails the flush, and nothing is written.
flush(stored, existing_blocks_list, session_blocks) ==
    LET read == Range(existing_blocks_list)
        held == Range(session_blocks)
        read_of(id) == CHOOSE r \in read : r.id = id
        held_of(id) == CHOOSE r \in held : r.id = id
        read_ids == {r.id : r \in read}
        held_ids == {r.id : r \in held}
        stored_ids == {r.id : r \in Range(stored)}
        dirty_ids == {id \in read_ids \cap held_ids : held_of(id) # read_of(id)}
        deleted_ids == read_ids \ held_ids
        added == {r \in held : r.id \notin read_ids}
        kept == {IF r.id \in dirty_ids THEN update(r, read_of(r.id), held_of(r.id)) ELSE r :
                    r \in {q \in Range(stored) : q.id \notin deleted_ids}}
    IN  IF ~(dirty_ids \subseteq stored_ids)
        THEN [ok |-> FALSE, rows |-> stored]
        ELSE [ok |-> TRUE, rows |-> order_by_n(kept \cup added)]

ValidationResult(num_ok, num_total) ==
    [num_ok |-> num_ok, num_total |-> num_total, errors |-> <<>>]

\* The loop of validate_all_blocks_have_unique_n over the n attributes of
\* the blocks: FALSE when it returns from inside the loop.
RECURSIVE _iter_blocks(_, _)
_iter_blocks(ns, seen) ==
    IF ns = <<>> THEN TRUE
    ELSE IF Head(ns) # NoKey /\ Head(ns) \in seen THEN FALSE
    ELSE _iter_blocks(Tail(ns), IF Head(ns) # NoKey THEN seen \cup {Head(ns)} ELSE seen)

validate_all_blocks_have_unique_n(ns) ==
    IF _iter_blocks(ns, {}) THEN ValidationResult(1, 1) ELSE ValidationResult(0, 1)

(***************************************************************************)
(* Publishing scenario: a project is walked block by block, the document   *)
(* is stored and the stored text is validated.                             *)
(***************************************************************************)
\* The blocks that pages are made of: paragraphs keyed "p1" or unkeyed,
\* with or without a speaker; verses keyed "1" or unkeyed; both may ask
\* for a continuation; and paragraphs keyed in the dotted scheme and
\* without a numeric suffix.
BlockChoices ==
    {ProofBlock("p", n, merge_next, speaker) :
        n \in {NoKey, <<"p", "1">>}, merge_next \in BOOLEAN, speaker \in BOOLEAN}
    \cup {ProofBlock("verse", n, merge_next, FALSE) :
        n \in {NoKey, <<"1">>}, merge_next \in BOOLEAN}
    \cup {ProofBlock("p", n, FALSE, FALSE) :
        n \in {<<"1", ".", "1">>, <<"f", "o", "o">>}}

\* The number of blocks of the pages ps.
RECURSIVE NumBlocks(_)
NumBlocks(ps) == IF ps = <<>> THEN 0 ELSE Len(Head(ps)) + NumBlocks(Tail(ps))

AssembleBlock ==
    /\ pc = "assembling"
    /\ NumBlocks(pages) < MaxBlocks
    /\ \E b \in BlockChoices : assemble_block(b)
    /\ UNCHANGED <<pc, text_blocks, requests, report, alignVars, validateVars, proofVars,
                   rewriteVars,
                   filterVars, structVars, diffVars>>

\* The walk goes on to the next page; only the blocks the page that was
\* just walked left open can still be continued.
NextPage ==
    /\ pc = "assembling"
    /\ blocks_read > 0
    /\ NumBlocks(pages) < MaxBlocks
    /\ pages' = Append(pages, <<>>)
    /\ pending' = {e \in pending : e.page = page_id}
    /\ UNCHANGED <<pc, tei_blocks, last_n, text_blocks, requests, report, alignVars,
                   validateVars, proofVars, rewriteVars,
                   filterVars, structVars, diffVars>>

\* POST /proofing/<project>/publish/<text>/create
Create ==
    /\ pc = "assembling"
    /\ blocks_read > 0
    /\ text_blocks' = create(text_blocks, tei_blocks, [k \in 1..Len(tei_blocks) |-> 1],
                             next_id_of(text_blocks))
    /\ pc' = "published"
    /\ UNCHANGED <<pages, tei_blocks, last_n, pending, requests, report, alignVars,
                   validateVars, proofVars, rewriteVars,
                   filterVars, structVars, diffVars>>

\* GET /texts/<slug>/validate
ValidateText ==
    /\ pc = "published"
    /\ report' = validate_all_blocks_have_unique_n(
                    [k \in 1..Len(text_blocks) |-> text_blocks[k].xml.n])
    /\ pc' = "reported"
    /\ UNCHANGED <<pages, tei_blocks, last_n, pending, text_blocks, requests, alignVars,
                   validateVars, proofVars, rewriteVars,
                   filterVars, structVars, diffVars>>

NextPublish == AssembleBlock \/ NextPage \/ Create \/ ValidateText

(***************************************************************************)
(* Republishing scenario: a text that was published before is published   *)
(* again by two create requests, each with the document it assembled and   *)
(* with a database session of its own.  A request reads the stored records *)
(* of the text (publish.py 594-602), aligns them with its document and     *)
(* writes when its session is flushed and committed (648-705); nothing in  *)
(* create keeps the other request from running in between.                 *)
(***************************************************************************)
\* A block of an assembled document together with the section it is in.
SectionBlock(xml, slug, block_page_id, section_id) ==
    [block |-> TEIBlock(xml, slug, block_page_id), section_id |-> section_id]

\* The blocks that republished documents are made of: two paragraphs of
\* page 1 in section 1, and the first of them as it reads when the page
\* and the section it is in and its slug have changed while its XML has
\* not.
RepublishChoices ==
    {SectionBlock(TEIXml("p", <<"1">>, FALSE, <<Fragment(1, 1)>>), <<"1">>, 1, 1),
     SectionBlock(TEIXml("p", <<"2">>, FALSE, <<Fragment(1, 2)>>), <<"2">>, 1, 1),
     SectionBlock(TEIXml("p", <<"1">>, FALSE, <<Fragment(1, 1)>>), <<"1", ".", "1">>, 2, 2)}

RepublishDocuments == SeqsUpTo(RepublishChoices, MaxStored)

new_doc_blocks_of(document) == [k \in 1..Len(document) |-> document[k].block]

block_sections_of(document) == [k \in 1..Len(document) |-> document[k].section_id]

\* A create request: how far it is, its document and the records it read.
Request(at, document, existing_blocks_list) ==
    [pc |-> at, document |-> document, existing_blocks_list |-> existing_blocks_list]

RequestIds == {1, 2}

\* create, lines 594-602: the request reads the stored records of the text.
CreateReads(r) ==
    /\ pc = "republishing"
    /\ requests[r].pc = "started"
    /\ requests' = [requests EXCEPT ![r] = Request("read", @.document, text_blocks)]
    /\ UNCHANGED <<pc, pages, tei_blocks, last_n, pending, text_blocks, report, alignVars,
                   validateVars, proofVars, rewriteVars,
                   filterVars, structVars, diffVars>>

\* create, lines 603-705: the request aligns what it read with its
\* document, and its session is flushed and committed.
CreateCommits(r) ==
    /\ pc = "republishing"
    /\ requests[r].pc = "read"
    /\ LET existing_blocks_list == requests[r].existing_blocks_list
           session_blocks ==
               create(existing_blocks_list,
                      new_doc_blocks_of(requests[r].document),
                      block_sections_of(requests[r].document),
                      next_id_of(text_blocks \o existing_blocks_list))
           flushed == flush(text_blocks, existing_blocks_list, session_blocks)
       IN  /\ text_blocks' = flushed.rows
           /\ requests' = [requests EXCEPT
                   ![r].pc = IF flushed.ok THEN "committed" ELSE "failed"]
    /\ UNCHANGED <<pc, pages, tei_blocks, last_n, pending, report, alignVars,
                   validateVars, proofVars, rewriteVars,
                   filterVars, structVars, diffVars>>

NextRepublish ==
    \/ \E r \in RequestIds : CreateReads(r)
    \/ \E r \in RequestIds : CreateCommits(r)

(***************************************************************************)
(* The block rewrite (utils/text_publishing.py,                            *)
(* _rewrite_block_to_tei_xml).  A block is modelled as ElementTree holds   *)
(* it: its tag, the text before its first child, and its children, each    *)
(* with its tag, its text and its tail, the text that follows it.          *)
(***************************************************************************)
ProofElement(tag, text, children) == [tag |-> tag, text |-> text, children |-> children]

Mark(tag, text, tail) == [tag |-> tag, text |-> text, tail |-> tail]

\* <choice><sic>sic</sic><corr>corr</corr></choice>, <supplied>text</supplied>
\* and <unclear>text</unclear>, each with the text that follows it.
TEIMark(tag, sic, corr, text, tail) ==
    [tag |-> tag, sic |-> sic, corr |-> corr, text |-> text, tail |-> tail]

\* The strings that str.strip() empties.
Whitespace == {"", " "}

\* A test that takes any text between two marks for whitespace.
is_blank_always(text) == TRUE

\* not text.strip()
is_blank(text) == text \in Whitespace

\* The children of the rewritten block: an error and a fix that follow each
\* other with nothing but whitespace in between become one choice, which
\* keeps the tail of the second; an error alone becomes a choice with an
\* empty corr, a fix alone a supplied, a flag an unclear.
RECURSIVE rewrite_marks(_)
rewrite_marks(children) ==
    IF children = <<>> THEN <<>>
    ELSE LET el == Head(children)
             rest == Tail(children)
         IN  IF /\ rest # <<>>
                /\ is_blank(el.tail)
                /\ {el.tag, Head(rest).tag} = {"error", "fix"}
             THEN <<TEIMark("choice",
                            IF el.tag = "error" THEN el.text ELSE Head(rest).text,
                            IF el.tag = "fix" THEN el.text ELSE Head(rest).text,
                            "", Head(rest).tail)>>
                  \o rewrite_marks(Tail(rest))
             ELSE IF el.tag = "error"
             THEN <<TEIMark("choice", el.text, "", "", el.tail)>> \o rewrite_marks(rest)
             ELSE IF el.tag = "fix"
             THEN <<TEIMark("supplied", "", "", el.text, el.tail)>> \o rewrite_marks(rest)
             ELSE IF el.tag = "flag"
             THEN <<TEIMark("unclear", "", "", el.text, el.tail)>> \o rewrite_marks(rest)
             ELSE <<TEIMark(el.tag, "", "", el.text, el.tail)>> \o rewrite_marks(rest)

\* The rewritten tag of a block without lines of its own.
block_tag(tag) == IF tag = "heading" THEN "head" ELSE tag

_rewrite_block_to_tei_xml(xml) ==
    ProofElement(block_tag(xml.tag), xml.text, rewrite_marks(xml.children))

(***************************************************************************)
(* Rewrite scenario: any block of a few marks is rewritten once.           *)
(***************************************************************************)
\* The text of the k-th mark of a block, so that every reading of a block
\* can be told from the others.
Readings == <<"bar", "biz", "baf", "buz", "bez">>

\* What follows a mark: nothing, a space, or words.
Tails == {"", " ", " tail "}

RECURSIVE MarksOfLen(_)
MarksOfLen(n) ==
    IF n = 0 THEN {<<>>}
    ELSE {Append(ms, Mark(tag, Readings[n], tail)) :
            ms \in MarksOfLen(n - 1), tag \in {"error", "fix", "flag"}, tail \in Tails}

RewriteBlocks ==
    {ProofElement(tag, text, ms) :
        tag \in {"p", "heading"}, text \in {"", "foo"},
        ms \in UNION {MarksOfLen(n) : n \in 0..MaxMarks}}

\* _rewrite_block_to_tei_xml(xml, image_number) works on the element it is
\* given: the caller reads the result from the element it passed.
Rewrite ==
    /\ pc = "rewrite_start"
    /\ tei' = _rewrite_block_to_tei_xml(tei)
    /\ pc' = "rewritten"
    /\ UNCHANGED <<block, alignVars, validateVars, proofVars, publishVars,
                   filterVars, structVars, diffVars>>

NextRewrite == Rewrite

(***************************************************************************)
(* Revision diffs (utils/diff.py).  A string is the sequence of its code   *)
(* points; "i" stands for a combining vowel sign, which extends the        *)
(* grapheme of the code point before it.                                   *)
(***************************************************************************)
CodePoints == {"k", "t", "i"}

Extend == {"i"}

\* The length of the grapheme that starts s: \X takes one code point and the
\* extending code points that follow it.
RECURSIVE grapheme_len(_, _)
grapheme_len(s, n) ==
    IF n < Len(s) /\ s[n + 1] \in Extend THEN grapheme_len(s, n + 1) ELSE n

\* GraphemeList(regex.findall(r"\X", s))
RECURSIVE _split_graphemes(_)
_split_graphemes(s) ==
    IF s = <<>> THEN <<>>
    ELSE LET n == grapheme_len(s, 1)
         IN  <<SubSeq(s, 1, n)>> \o _split_graphemes(SubSeq(s, n + 1, Len(s)))

\* "".join(parts)
RECURSIVE Join(_)
Join(parts) == IF parts = <<>> THEN <<>> ELSE Head(parts) \o Join(Tail(parts))

\* A slice that loses its last grapheme.
grapheme_slice_short(g, lo, hi) == Join(SubSeq(g, lo + 1, hi - 1))

\* GraphemeList.__getitem__(slice(lo, hi)): the graphemes lo..hi-1 as a string
grapheme_slice(g, lo, hi) == Join(SubSeq(g, lo + 1, hi))

DiffOp(op, old, new) == [op |-> op, old |-> old, new |-> new]

revision_diff_op(a, b, opcode) ==
    LET old_text == grapheme_slice(a, opcode.a0, opcode.a1)
        new_text == grapheme_slice(b, opcode.b0, opcode.b1)
    IN  IF opcode.tag = "equal" THEN DiffOp("equal", old_text, new_text)
        ELSE IF opcode.tag = "insert" THEN DiffOp("insert", <<>>, new_text)
        ELSE IF opcode.tag = "delete" THEN DiffOp("delete", old_text, <<>>)
        ELSE DiffOp("replace", old_text, new_text)

revision_diff_ops(old, new) ==
    LET a == _split_graphemes(old)
        b == _split_graphemes(new)
        matcher_opcodes == get_opcodes(a, b)
    IN  [k \in 1..Len(matcher_opcodes) |-> revision_diff_op(a, b, matcher_opcodes[k])]

RevisionDiff ==
    /\ pc = "diff_start"
    /\ diff_ops' = revision_diff_ops(old_str, new_str)
    /\ pc' = "diffed"
    /\ UNCHANGED <<old_str, new_str, alignVars, validateVars, proofVars,
                   publishVars, rewriteVars, filterVars, structVars>>

NextDiff == RevisionDiff

(***************************************************************************)
(* Filters (Filter of utils/text_publishing.py) and the publish            *)
(* configuration (views/proofing/publish.py).  An expression is a sequence *)
(* of lexemes: the two parentheses and atoms.                              *)
(***************************************************************************)

MAX_SEXP_DEPTH == 50

NoLabel == ""

NoFilter == [kind |-> "none"]

Atom(value) == [kind |-> "atom", value |-> value]

List(items) == [kind |-> "list", items |-> items]

SyntaxError(message) == [ok |-> FALSE, message |-> message, node |-> NoFilter, pos |-> 0]

\* The depth guard of the parser: the list that is opened is the depth-th.
too_deep(depth) == depth >= MAX_SEXP_DEPTH

\* How many lists are open once lexeme i is read.
nesting_at(tokens, i) ==
    Cardinality({j \in 1..i : tokens[j] = "("}) - Cardinality({j \in 1..i : tokens[j] = ")"})

\* The end of the input inside a list, taken as the end of the list.
end_of_input_closes(i) == [ok |-> TRUE, items |-> <<>>, pos |-> i]

\* The end of the input inside a list.
end_of_input(i) == SyntaxError("Missing closing parenthesis")

\* The list that opens at lexeme i, and its items from lexeme i on.
RECURSIVE parse_list(_, _)
RECURSIVE parse_items(_, _)
parse_items(tokens, i) ==
    IF i > Len(tokens) THEN end_of_input(i)
    ELSE IF tokens[i] = ")" THEN [ok |-> TRUE, items |-> <<>>, pos |-> i + 1]
    ELSE IF tokens[i] = "("
    THEN LET sub == parse_list(tokens, i)
         IN  IF ~sub.ok THEN sub
             ELSE LET rest == parse_items(tokens, sub.pos)
                  IN  IF ~rest.ok THEN rest
                      ELSE [rest EXCEPT !.items = <<sub.node>> \o @]
    ELSE LET rest == parse_items(tokens, i + 1)
         IN  IF ~rest.ok THEN rest
             ELSE [rest EXCEPT !.items = <<Atom(tokens[i])>> \o @]

parse_list(tokens, i) ==
    LET read == parse_items(tokens, i + 1)
    IN  IF ~read.ok THEN read
        ELSE [ok |-> TRUE, node |-> List(read.items), pos |-> read.pos]

\* Filter(expression): the parsed expression, or the ValueError.  The parser
\* counts the lists that are open while it reads and gives up at the first
\* parenthesis that opens one too many, before it reads on; a list that the
\* input ends in is found at the end only.
Filter(tokens) ==
    IF tokens = <<>> \/ tokens[1] # "(" THEN SyntaxError("must start with")
    ELSE IF \E i \in 1..Len(tokens) : tokens[i] = "(" /\ too_deep(nesting_at(tokens, i))
    THEN SyntaxError("levels deep")
    ELSE parse_list(tokens, 1)

\* An argument of image: a page number, with a label after a colon or bare.
image_bound(atom) ==
    CASE atom = "2" -> [page |-> 2, label |-> NoLabel]
      [] atom = "3" -> [page |-> 3, label |-> NoLabel]
      [] atom = "4" -> [page |-> 4, label |-> NoLabel]
      [] atom = "2:a" -> [page |-> 2, label |-> "a"]
      [] atom = "3:a" -> [page |-> 3, label |-> "a"]
      [] atom = "4:b" -> [page |-> 4, label |-> "b"]

IndexedBlock(image_number, block_index, page_xml) ==
    [image_number |-> image_number, block_index |-> block_index, page_xml |-> page_xml]

\* The index of the last block of the page that carries the label, or None.
last_labelled(page_xml, label) ==
    IF \A k \in 1..Len(page_xml) : page_xml[k].text # label THEN None
    ELSE (CHOOSE k \in 1..Len(page_xml) :
            /\ page_xml[k].text = label
            /\ \A j \in (k + 1)..Len(page_xml) : page_xml[j].text # label) - 1

\* The index of the first block of the page that carries the label, or None.
first_labelled(page_xml, label) ==
    IF \A k \in 1..Len(page_xml) : page_xml[k].text # label THEN None
    ELSE (CHOOSE k \in 1..Len(page_xml) :
            /\ page_xml[k].text = label
            /\ \A j \in 1..(k - 1) : page_xml[j].text # label) - 1

\* (image lo) and (image lo hi) on a block.  What a range does on a bound's
\* page that has no block with the bound's label is not settled by the tests:
\* the verdict is then the one given as unsettled.
image_matches(lo, hi, single, b, unsettled) ==
    LET from_index == first_labelled(b.page_xml, lo.label)
        to_index == first_labelled(b.page_xml, hi.label)
        at_start == b.image_number = lo.page /\ lo.label # NoLabel
        at_end == b.image_number = hi.page /\ hi.label # NoLabel
    IN  IF b.image_number < lo.page \/ b.image_number > hi.page THEN FALSE
        ELSE IF (at_start /\ from_index = None) \/ (at_end /\ to_index = None)
        THEN (IF single THEN FALSE ELSE unsettled)
        ELSE /\ at_start => b.block_index >= from_index
             /\ at_end => b.block_index <= to_index

\* and, or and not on the verdicts of the arguments; an empty "and" accepts
\* nothing.
combine_and_needs_one(op, verdicts) ==
    CASE op = "and" -> verdicts # <<>> /\ \A k \in 1..Len(verdicts) : verdicts[k]
      [] op = "or" -> \E k \in 1..Len(verdicts) : verdicts[k]
      [] op = "not" -> ~verdicts[1]

\* and, or and not on the verdicts of the arguments.
combine(op, verdicts) ==
    CASE op = "and" -> \A k \in 1..Len(verdicts) : verdicts[k]
      [] op = "or" -> \E k \in 1..Len(verdicts) : verdicts[k]
      [] op = "not" -> ~verdicts[1]

\* Filter.matches(block)
RECURSIVE matches(_, _, _)
matches(node, b, unsettled) ==
    LET op == node.items[1].value
        args == Tail(node.items)
        own == b.page_xml[b.block_index + 1]
    IN  CASE op \in {"and", "or", "not"} ->
                combine(op, [k \in 1..Len(args) |-> matches(args[k], b, unsettled)])
          [] op \in {"image", "page"} ->
                IF Len(args) = 1
                THEN image_matches(image_bound(args[1].value), image_bound(args[1].value),
                                   TRUE, b, unsettled)
                ELSE image_matches(image_bound(args[1].value), image_bound(args[2].value),
                                   FALSE, b, unsettled)
          [] op = "tag" -> own.tag = args[1].value
          [] op = "label" -> own.text = args[1].value

\* The atoms and the expressions of the filter scenario.
ImageAtoms ==
    {<<"(", "image", "3", ")">>, <<"(", "page", "3", ")">>, <<"(", "image", "2", "4", ")">>,
     <<"(", "image", "3:a", ")">>, <<"(", "image", "2:a", "4:b", ")">>,
     <<"(", "image", "2:a", "4", ")">>, <<"(", "image", "2", "4:b", ")">>}

PlainAtoms ==
    {<<"(", "image", "2", "4", ")">>, <<"(", "tag", "p", ")">>, <<"(", "label", "a", ")">>}

Expressions ==
    ImageAtoms \cup PlainAtoms
    \cup {<<"(", "and", ")">>, <<"(", "or", ")">>}
    \cup {<<"(", "not">> \o e \o <<")">> : e \in PlainAtoms}
    \cup {<<"(", op>> \o e[1] \o e[2] \o <<")">> :
            op \in {"and", "or"}, e \in PlainAtoms \X PlainAtoms}

\* An expression nested as deep as the guard allows no more.
DeeplyNested ==
    [k \in 1..(2 * MAX_SEXP_DEPTH + 1) |->
        IF k <= MAX_SEXP_DEPTH THEN "(" ELSE IF k = MAX_SEXP_DEPTH + 1 THEN "and" ELSE ")"]

\* Expressions with a flaw: no opening parenthesis, no closing parenthesis
\* at either level, nested too deep.
Malformed ==
    {<<"image", "3">>, <<"a">>, <<>>, <<"(", "image", "3">>,
     <<"(", "and", "(", "tag", "p", ")">>, DeeplyNested}

\* Targets of a publish configuration: expressions, and a bare label.
Targets ==
    {<<"(", "image", "2", "4", ")">>, <<"(", "and", ")">>, <<"a">>,
     <<"(", "image", "3">>, DeeplyNested}

\* A new filter is made of the expression.
NewFilter ==
    /\ pc = "filter_start"
    /\ LET made == Filter(target)
       IN  /\ parsed_filter' = IF made.ok THEN made.node ELSE NoFilter
           /\ matched' = IF made.ok THEN "none" ELSE made.message
           /\ pc' = IF made.ok THEN "filter_built" ELSE "filter_failed"
    /\ UNCHANGED <<target, candidate, config, posted, alignVars, validateVars, proofVars,
                   publishVars, rewriteVars, structVars, diffVars>>

\* filter.matches(candidate)
Matches ==
    /\ pc = "filter_built"
    /\ \E unsettled \in BOOLEAN :
        matched' = IF matches(parsed_filter, candidate, unsettled) THEN "match" ELSE "no match"
    /\ pc' = "filter_matched"
    /\ UNCHANGED <<target, candidate, config, posted, parsed_filter, alignVars, validateVars,
                   proofVars, publishVars, rewriteVars, structVars, diffVars>>

\* What config() makes a filter of: the target, or the label it names.
effective_expression(t) ==
    IF t # <<>> /\ t[1] = "(" THEN t ELSE <<"(", "label">> \o t \o <<")">>

\* POST /<slug>/publish: the posted configuration is stored when its JSON
\* validates, its slugs are well-formed, every target makes a filter, no new
\* slug is taken by another text, and it differs from the stored one.
ConfigPost ==
    /\ pc = "config_start"
    /\ \E json_valid \in BOOLEAN, slugs_valid \in BOOLEAN, slugs_free \in BOOLEAN :
        LET filters_valid == \A k \in 1..Len(posted) : Filter(effective_expression(posted[k])).ok
        IN  /\ matched' =
                IF ~json_valid THEN "Validation error"
                ELSE IF ~slugs_valid THEN "slug error"
                ELSE IF ~filters_valid THEN "Invalid filter"
                ELSE IF ~slugs_free THEN "slug exists"
                ELSE IF posted # config THEN "Configuration saved successfully."
                ELSE "No changes to save."
            /\ config' =
                IF json_valid /\ slugs_valid /\ filters_valid /\ slugs_free THEN posted
                ELSE config
    /\ pc' = "config_answered"
    /\ UNCHANGED <<target, candidate, posted, parsed_filter, alignVars, validateVars,
                   proofVars, publishVars, rewriteVars, structVars, diffVars>>

NextFilter ==
    \/ NewFilter
    \/ Matches
    \/ ConfigPost

(***************************************************************************)
(* Structured pages (utils/project_structuring.py).  A string is a         *)
(* sequence of lexemes: a character, a start tag, an end tag, an empty     *)
(* element tag, or a tag whose angle brackets are written as entities.     *)
(* The characters "amp;", "lt;" and "gt;" stand for the letters that       *)
(* follow the ampersand of an entity, "ka" for a Devanagari letter, "hai"  *)
(* for the Hindi word of two code points and "latin40" for a run of forty  *)
(* Latin letters.                                                          *)
(***************************************************************************)

\* Python's None in a string position.  No input holds an empty attribute
\* value, and the code tests these fields for truth only.
NoValue == <<>>

Ch(c) == [kind |-> "char", c |-> c]

STag(tag, attrib) == [kind |-> "start", tag |-> tag, attrib |-> attrib]

ETag(tag) == [kind |-> "end", tag |-> tag]

EmptyTag(tag, attrib) == [kind |-> "empty", tag |-> tag, attrib |-> attrib]

EscapedTag(tok) == [kind |-> "escaped", of |-> tok]

Chars(s) == [k \in 1..Len(s) |-> Ch(s[k])]

NoAttrib == [name \in {} |-> <<>>]

\* str.strip() and str.splitlines(): the white space and the line ends among
\* the characters of the model.
WhitespaceChars == {" ", "\n", "\r", "\f"}

LineEnds == {"\n", "\r", "\f"}

IsSpace(tok) == tok.kind = "char" /\ tok.c \in WhitespaceChars

RECURSIVE lstrip(_)
lstrip(s) == IF s # <<>> /\ IsSpace(Head(s)) THEN lstrip(Tail(s)) ELSE s

RECURSIVE rstrip(_)
rstrip(s) ==
    IF s # <<>> /\ IsSpace(s[Len(s)]) THEN rstrip(SubSeq(s, 1, Len(s) - 1)) ELSE s

strip(s) == rstrip(lstrip(s))

\* ElementTree: an element is its tag, its attributes and what it holds in
\* order, characters of text and child elements.  el.text is the text before
\* the first child, a child's tail the text after it.
XmlElement(tag, attrib, items) ==
    [kind |-> "element", tag |-> tag, attrib |-> attrib, items |-> items]

ParseFailure == [ok |-> FALSE, items |-> <<>>, pos |-> 0]

Prepend(item, r) == IF r.ok THEN [r EXCEPT !.items = <<item>> \o @] ELSE ParseFailure

\* expat: the content of an element from lexeme i on, up to an end tag or the
\* end of the input.  A bare "<" or "&" and a form feed are not well-formed;
\* an entity gives its character; a carriage return, with the line feed
\* after it if any, gives one line feed.
RECURSIVE parse_content(_, _)
parse_content(s, i) ==
    IF i > Len(s) THEN [ok |-> TRUE, items |-> <<>>, pos |-> i]
    ELSE LET t == s[i]
         IN  CASE t.kind = "end" -> [ok |-> TRUE, items |-> <<>>, pos |-> i]
               [] t.kind = "empty" ->
                    Prepend(XmlElement(t.tag, t.attrib, <<>>), parse_content(s, i + 1))
               [] t.kind = "start" ->
                    LET inner == parse_content(s, i + 1)
                    IN  IF /\ inner.ok
                           /\ inner.pos <= Len(s)
                           /\ s[inner.pos].tag = t.tag
                        THEN Prepend(XmlElement(t.tag, t.attrib, inner.items),
                                     parse_content(s, inner.pos + 1))
                        ELSE ParseFailure
               [] t.kind = "escaped" -> Prepend(t.of, parse_content(s, i + 1))
               [] t.kind = "char" ->
                    IF t.c \in {"<", "\f"} THEN ParseFailure
                    ELSE IF t.c = "&"
                    THEN IF i < Len(s) /\ s[i + 1].kind = "char"
                            /\ s[i + 1].c \in {"amp;", "lt;", "gt;"}
                         THEN Prepend(Ch(CASE s[i + 1].c = "amp;" -> "&"
                                           [] s[i + 1].c = "lt;" -> "<"
                                           [] s[i + 1].c = "gt;" -> ">"),
                                      parse_content(s, i + 2))
                         ELSE ParseFailure
                    ELSE IF t.c = "\r"
                    THEN Prepend(Ch("\n"),
                                 parse_content(s, IF i < Len(s) /\ s[i + 1].kind = "char"
                                                     /\ s[i + 1].c = "\n"
                                                  THEN i + 2 ELSE i + 1))
                    ELSE Prepend(t, parse_content(s, i + 1))

ElementsOf(items) == SelectSeq(items, LAMBDA x : x.kind = "element")

\* DET.fromstring: the document is one element with nothing but white space
\* around it; anything else raises.
fromstring(s) ==
    LET r == parse_content(s, 1)
    IN  IF /\ r.ok
           /\ r.pos = Len(s) + 1
           /\ Len(ElementsOf(r.items)) = 1
           /\ \A k \in 1..Len(r.items) : r.items[k].kind = "element" \/ IsSpace(r.items[k])
        THEN [ok |-> TRUE, root |-> ElementsOf(r.items)[1]]
        ELSE [ok |-> FALSE, root |-> XmlElement("", NoAttrib, <<>>)]

\* ElementTree._escape_cdata: "&", "<" and ">" become entities and nothing
\* else changes.
_escape_cdata(tok) ==
    CASE tok.kind = "char" /\ tok.c = "&" -> <<Ch("&"), Ch("amp;")>>
      [] tok.kind = "char" /\ tok.c = "<" -> <<Ch("&"), Ch("lt;")>>
      [] tok.kind = "char" /\ tok.c = ">" -> <<Ch("&"), Ch("gt;")>>
      [] tok.kind \in {"start", "end", "empty", "escaped"} -> <<EscapedTag(tok)>>
      [] OTHER -> <<tok>>

\* ET.tostring of what an element holds: text and tails escaped, children
\* written out, an element that holds nothing as an empty element tag.
RECURSIVE serialize_items(_)
serialize_items(items) ==
    IF items = <<>> THEN <<>>
    ELSE LET x == Head(items)
         IN  (IF x.kind # "element" THEN _escape_cdata(x)
              ELSE IF x.items = <<>> THEN <<EmptyTag(x.tag, x.attrib)>>
              ELSE <<STag(x.tag, x.attrib)>> \o serialize_items(x.items) \o <<ETag(x.tag)>>)
             \o serialize_items(Tail(items))

\* The text of an element: what it holds before its first child.
RECURSIVE text_of(_)
text_of(items) ==
    IF items = <<>> \/ Head(items).kind = "element" THEN <<>>
    ELSE <<Head(items)>> \o text_of(Tail(items))

\* _inner_xml: the text as it is, then every child as ET.tostring writes it,
\* its tail included.
_inner_xml(el) ==
    LET leading == text_of(el.items)
    IN  leading \o serialize_items(SubSeq(el.items, Len(leading) + 1, Len(el.items)))

\* The page of a scenario that structures nothing.
NoPage == [id |-> 0, blocks |-> <<>>]

\* ProofBlock of project_structuring.py: a block of a structured page.
PageBlock(type, block_content, lang, text_id, n, merge_next, mark) ==
    [type |-> type, content |-> block_content, lang |-> lang, text |-> text_id,
     n |-> n, merge_next |-> merge_next, mark |-> mark]

ProofPage(id, blocks) == [id |-> id, blocks |-> blocks]

\* el.get(name, default)
get(el, name, default) == IF name \in DOMAIN el.attrib THEN el.attrib[name] ELSE default

\* str.lower() on the values of the merge attributes.
lower(value) == IF value = Chars(<<"True">>) THEN Chars(<<"true">>) ELSE value

block_from_element(el) ==
    PageBlock(el.tag, _inner_xml(el),
              get(el, "lang", NoValue), get(el, "text", NoValue), get(el, "n", NoValue),
              \/ lower(get(el, "merge-next", Chars(<<"false">>))) = Chars(<<"true">>)
              \/ lower(get(el, "merge-text", Chars(<<"false">>))) = Chars(<<"true">>),
              get(el, "mark", NoValue))

\* ProofPage._from_xml_string: raises when the content is not well-formed or
\* its root is not a page; else one block per child of the root.
_from_xml_string(xml_content, id) ==
    LET parsed == fromstring(xml_content)
    IN  IF ~parsed.ok \/ parsed.root.tag # "page"
        THEN [raised |-> TRUE, page |-> NoPage]
        ELSE LET els == ElementsOf(parsed.root.items)
             IN  [raised |-> FALSE,
                  page |-> ProofPage(id, [k \in 1..Len(els) |-> block_from_element(els[k])])]

\* str.replace("&", "&amp;")
RECURSIVE replace_amp(_)
replace_amp(s) ==
    IF s = <<>> THEN <<>>
    ELSE (IF Head(s) = Ch("&") THEN <<Ch("&"), Ch("amp;")>> ELSE <<Head(s)>>)
         \o replace_amp(Tail(s))

\* What to_xml_string puts into the element of a block: the parsed content
\* when the stripped content is well-formed inside a wrapper, else the
\* stripped content as text.
block_items(b) ==
    LET stripped == replace_amp(strip(b.content))
        temp_wrapper == fromstring(<<STag("temp", NoAttrib)>> \o stripped \o <<ETag("temp")>>)
    IN  IF temp_wrapper.ok THEN temp_wrapper.root.items ELSE stripped

block_attrib(b) ==
    LET names == {name \in {"lang", "text", "n", "mark"} : b[name] # <<>>}
                    \cup (IF b.merge_next THEN {"merge-next"} ELSE {})
    IN  [name \in names |-> IF name = "merge-next" THEN Chars(<<"true">>) ELSE b[name]]

\* ProofPage.to_xml_string
to_xml_string(page) ==
    LET body(k) == <<XmlElement(page.blocks[k].type, block_attrib(page.blocks[k]),
                                block_items(page.blocks[k])),
                     Ch("\n")>>
    IN  serialize_items(<<XmlElement("page", NoAttrib,
            <<Ch("\n")>> \o Join([k \in 1..Len(page.blocks) |-> body(k)]))>>)

\* str.splitlines(): the lines between line ends, a carriage return with the
\* line feed after it counting once, and no empty line after the last end.
RECURSIVE splitlines(_)
splitlines(s) ==
    IF s = <<>> THEN <<>>
    ELSE IF \A k \in 1..Len(s) : ~(s[k].kind = "char" /\ s[k].c \in LineEnds) THEN <<s>>
    ELSE LET k == CHOOSE i \in 1..Len(s) :
                    /\ s[i].kind = "char" /\ s[i].c \in LineEnds
                    /\ \A j \in 1..(i - 1) : ~(s[j].kind = "char" /\ s[j].c \in LineEnds)
             skip == IF s[k] = Ch("\r") /\ k < Len(s) /\ s[k + 1] = Ch("\n") THEN k + 1 ELSE k
         IN  <<SubSeq(s, 1, k - 1)>> \o splitlines(SubSeq(s, skip + 1, Len(s)))

\* str.split(sep) for a separator of one character.
RECURSIVE split_on(_, _)
split_on(s, sep) ==
    IF \A k \in 1..Len(s) : s[k] # Ch(sep) THEN <<s>>
    ELSE LET k == CHOOSE i \in 1..Len(s) : s[i] = Ch(sep) /\ \A j \in 1..(i - 1) : s[j] # Ch(sep)
         IN  <<SubSeq(s, 1, k - 1)>> \o split_on(SubSeq(s, k + 1, Len(s)), sep)

\* str.split(): the runs of characters between white space.
RECURSIVE split(_)
split(s) ==
    LET t == lstrip(s)
    IN  IF t = <<>> THEN <<>>
        ELSE IF \A k \in 1..Len(t) : ~IsSpace(t[k]) THEN <<t>>
        ELSE LET k == CHOOSE i \in 1..Len(t) : IsSpace(t[i]) /\ \A j \in 1..(i - 1) : ~IsSpace(t[j])
             IN  <<SubSeq(t, 1, k - 1)>> \o split(SubSeq(t, k + 1, Len(t)))

\* "\n".join(lines)
RECURSIVE join_lines(_)
join_lines(lines) ==
    IF lines = <<>> THEN <<>>
    ELSE IF Len(lines) = 1 THEN lines[1]
    ELSE lines[1] \o <<Ch("\n")>> \o join_lines(Tail(lines))

\* The groups of non-empty lines between blank lines, each joined by "\n"
\* (from_content_and_page_id, the loop over the lines).
RECURSIVE text_blocks_of(_, _)
text_blocks_of(lines, cur) ==
    IF lines = <<>> THEN (IF cur # <<>> THEN <<join_lines(cur)>> ELSE <<>>)
    ELSE IF Head(lines) # <<>> THEN text_blocks_of(Tail(lines), Append(cur, Head(lines)))
    ELSE (IF cur # <<>> THEN <<join_lines(cur)>> ELSE <<>>) \o text_blocks_of(Tail(lines), <<>>)

\* The code points a character of the model stands for, and the Latin
\* letters among them.
char_len(c) ==
    CASE c = "latin40" -> 40
      [] c = "hai" -> 2
      [] c \in {"ka", "danda", "double_danda"} -> 1
      [] OTHER -> Len(c)

char_latin(c) ==
    CASE c = "latin40" -> 40
      [] c \in {"a", "sa", "en", "hi", "true", "True", "false"} -> Len(c)
      [] c \in {"amp;", "lt;", "gt;"} -> Len(c) - 1
      [] OTHER -> 0

RECURSIVE str_len(_)
RECURSIVE str_latin(_)
RECURSIVE attrib_len(_)
RECURSIVE attrib_latin(_)

\* len(text) and len(re.findall(r"[a-zA-Z]", text)) of a string; a tag is
\* written with its angle brackets, its name and its attributes, each as
\* a space, the name, the equals sign and the quoted value.
attrib_len(attrib) ==
    IF DOMAIN attrib = {} THEN 0
    ELSE LET name == CHOOSE x \in DOMAIN attrib : TRUE
         IN  Len(name) + 4 + str_len(attrib[name])
             + attrib_len([x \in DOMAIN attrib \ {name} |-> attrib[x]])

attrib_latin(attrib) ==
    IF DOMAIN attrib = {} THEN 0
    ELSE LET name == CHOOSE x \in DOMAIN attrib : TRUE
         IN  (IF name \in {"merge-next", "merge-text"} THEN Len(name) - 1 ELSE Len(name))
             + str_latin(attrib[name])
             + attrib_latin([x \in DOMAIN attrib \ {name} |-> attrib[x]])

str_len(s) ==
    IF s = <<>> THEN 0
    ELSE LET t == Head(s)
         IN  (CASE t.kind = "char" -> char_len(t.c)
                [] t.kind = "start" -> Len(t.tag) + 2 + attrib_len(t.attrib)
                [] t.kind = "end" -> Len(t.tag) + 3
                [] t.kind = "empty" -> Len(t.tag) + 4 + attrib_len(t.attrib)
                [] t.kind = "escaped" -> str_len(<<t.of>>) + 6)
             + str_len(Tail(s))

str_latin(s) ==
    IF s = <<>> THEN 0
    ELSE LET t == Head(s)
         IN  (CASE t.kind = "char" -> char_latin(t.c)
                [] t.kind \in {"start", "empty"} -> Len(t.tag) + attrib_latin(t.attrib)
                [] t.kind = "end" -> Len(t.tag)
                [] t.kind = "escaped" -> str_latin(<<t.of>>) + 4)
             + str_latin(Tail(s))

HINDI_MARKERS == {<<Ch("hai")>>}

\* detect_language: English when more than nine tenths of the text are Latin
\* letters, Hindi when a marker word is among the words, else Sanskrit.
detect_language(s) ==
    IF s = <<>> \/ strip(s) = <<>> THEN "sa"
    ELSE IF 100 * str_latin(s) > 90 * str_len(s) THEN "en"
    ELSE IF \E marker \in HINDI_MARKERS : marker \in Range(split(s)) THEN "hi"
    ELSE "sa"

DANDA == Ch("danda")

DOUBLE_DANDA == Ch("double_danda")

\* _is_verse with the double danda required at the end of the last line.
_is_verse_at_end(s) ==
    LET lines == SelectSeq([k \in 1..Len(split_on(s, "\n")) |-> strip(split_on(s, "\n")[k])],
                           LAMBDA line : line # <<>>)
    IN  IF Len(lines) = 2
        THEN DANDA \in Range(lines[1]) /\ lines[2][Len(lines[2])] = DOUBLE_DANDA
        ELSE IF Len(lines) = 4
        THEN DANDA \in Range(lines[2]) /\ lines[4][Len(lines[4])] = DOUBLE_DANDA
        ELSE FALSE

\* _is_verse: two lines with a danda in the first and a double danda in the
\* second, or four lines with a danda in the second and a double danda in
\* the fourth.
_is_verse(s) ==
    LET lines == SelectSeq([k \in 1..Len(split_on(s, "\n")) |-> strip(split_on(s, "\n")[k])],
                           LAMBDA line : line # <<>>)
    IN  IF Len(lines) = 2 THEN DANDA \in Range(lines[1]) /\ DOUBLE_DANDA \in Range(lines[2])
        ELSE IF Len(lines) = 4 THEN DANDA \in Range(lines[2]) /\ DOUBLE_DANDA \in Range(lines[4])
        ELSE FALSE

\* re.match(r"^\[\^([^\]]+)\]\s*", content): the position of the bracket that
\* closes the mark, or 0 when there is no match.
mark_end(s) ==
    IF \E k \in 4..Len(s) : s[k] = Ch("]") /\ \A j \in 3..(k - 1) : s[j] # Ch("]")
    THEN CHOOSE k \in 4..Len(s) : s[k] = Ch("]") /\ \A j \in 3..(k - 1) : s[j] # Ch("]")
    ELSE 0

startswith_footnote(s) == Len(s) >= 2 /\ s[1] = Ch("[") /\ s[2] = Ch("^")

\* The block of one group of lines (from_content_and_page_id, the loop over
\* the text blocks).
block_from_text(s) ==
    LET language == Chars(<<detect_language(s)>>)
    IN  IF startswith_footnote(s)
        THEN LET m == mark_end(s)
             IN  IF m # 0
                 THEN PageBlock("footnote", lstrip(SubSeq(s, m + 1, Len(s))), language,
                                NoValue, NoValue, FALSE, SubSeq(s, 3, m - 1))
                 ELSE PageBlock("footnote", s, language, NoValue, NoValue, FALSE, NoValue)
        ELSE IF detect_language(s) = "sa" /\ _is_verse(s)
        THEN PageBlock("verse", s, language, NoValue, NoValue, FALSE, NoValue)
        ELSE PageBlock("p", s, language, NoValue, NoValue, FALSE, NoValue)

\* The page the heuristics make of plain text.
page_from_plain_text(s, id) ==
    IF s = <<>> THEN ProofPage(id, <<>>)
    ELSE LET lines == [k \in 1..Len(splitlines(s)) |-> strip(splitlines(s)[k])]
             groups == text_blocks_of(lines, <<>>)
         IN  ProofPage(id, [k \in 1..Len(groups) |-> block_from_text(groups[k])])

\* from_content_and_page_id without the try around the XML parse: what the
\* parse raises reaches the caller.
from_content_and_page_id_no_try(s, id) == _from_xml_string(s, id)

\* ProofPage.from_content_and_page_id: the page of the XML when it parses;
\* whatever the parse raises is caught, and the heuristics make the page.
from_content_and_page_id(s, id) ==
    LET parsed == _from_xml_string(s, id)
    IN  IF ~parsed.raised THEN parsed
        ELSE [raised |-> FALSE, page |-> page_from_plain_text(s, id)]

\* split_plain_text_to_blocks, its two line tests.
_is_verse_danda(line) ==
    /\ line # <<>> /\ line[Len(line)] = DANDA
    /\ Cardinality({k \in 1..Len(line) : line[k] = DANDA}) = 1

_is_verse_double_danda(line) ==
    /\ line # <<>> /\ line[Len(line)] = DOUBLE_DANDA
    /\ DANDA \notin Range(line)

\* re.match(r"^[०-९]+\.", line): Devanagari digits and a full stop lead.
RECURSIVE leading_digits(_)
leading_digits(line) ==
    IF line # <<>> /\ Head(line) = Ch("deva_digit") THEN 1 + leading_digits(Tail(line)) ELSE 0

is_numbered_footnote(line) ==
    LET d == leading_digits(line)
    IN  d >= 1 /\ d < Len(line) /\ line[d + 1] = Ch(".")

NoLineKey == [prefix |-> "none", id |-> 0]

\* Step 1 of split_plain_text_to_blocks, lines i and later: a numbered line
\* claims itself and every line after it for a footnote; a line that ends in
\* a double danda claims the two or four lines of its verse.
RECURSIVE assign_ids(_, _, _)
assign_ids(lines, i, st) ==
    IF i > Len(lines) THEN st
    ELSE LET line == lines[i]
             claimed ==
                IF is_numbered_footnote(line) THEN i..Len(lines)
                ELSE IF ~_is_verse_double_danda(line) THEN {}
                ELSE IF i > 1 /\ _is_verse_danda(lines[i - 1]) THEN {i - 1, i}
                ELSE IF /\ i >= 4
                        /\ DANDA \notin Range(lines[i - 3])
                        /\ _is_verse_danda(lines[i - 2])
                        /\ DANDA \notin Range(lines[i - 1])
                THEN (i - 3)..i
                ELSE {}
             key == [prefix |-> IF is_numbered_footnote(line) THEN "f" ELSE "v", id |-> st.id]
         IN  IF claimed = {} THEN assign_ids(lines, i + 1, st)
             ELSE assign_ids(lines, i + 1,
                    [ids |-> [j \in 1..Len(lines) |-> IF j \in claimed THEN key ELSE st.ids[j]],
                     id |-> st.id + 1])

\* The key each line is grouped under: its own, or the running number of the
\* lines with a key before it.
group_keys(ids) ==
    [j \in 1..Len(ids) |->
        IF ids[j] # NoLineKey THEN ids[j]
        ELSE [prefix |-> "auto",
              id |-> Cardinality({h \in 1..(j - 1) : ids[h] # NoLineKey})]]

\* re.sub of a bracketed span by the span inside an element: the span runs
\* from an opening bracket to the first closing one, on one line unless the
\* pattern is compiled with DOTALL.
RECURSIVE wrap_spans(_, _, _, _, _)
wrap_spans(s, open, close, tag, dotall) ==
    IF s = <<>> THEN <<>>
    ELSE IF /\ Head(s) = Ch(open)
            /\ \E k \in 2..Len(s) :
                /\ s[k] = Ch(close)
                /\ \A j \in 2..(k - 1) : s[j] # Ch(close) /\ (dotall \/ s[j] # Ch("\n"))
    THEN LET k == CHOOSE i \in 2..Len(s) :
                    s[i] = Ch(close) /\ \A j \in 2..(i - 1) : s[j] # Ch(close)
         IN  <<STag(tag, NoAttrib)>> \o SubSeq(s, 1, k) \o <<ETag(tag)>>
             \o wrap_spans(SubSeq(s, k + 1, Len(s)), open, close, tag, dotall)
    ELSE <<Head(s)>> \o wrap_spans(Tail(s), open, close, tag, dotall)

\* re.sub(r"^(\S+\s*[-–])(.+)", ...): the positions at which the dash of the
\* speaker can stand.  Before it come characters that are no white space and
\* then white space only; after it comes a character that is no line feed.
speaker_dashes(s) ==
    {d \in 2..(Len(s) - 1) :
        /\ s[d] = Ch("-")
        /\ s[d + 1] # Ch("\n")
        /\ ~IsSpace(s[1])
        /\ \E p \in 1..(d - 1) :
            /\ \A j \in 1..p : ~IsSpace(s[j])
            /\ \A j \in (p + 1)..(d - 1) : IsSpace(s[j])}

\* The greedy match takes the last such dash.
wrap_speaker(s) ==
    IF speaker_dashes(s) = {} THEN s
    ELSE LET d == CHOOSE x \in speaker_dashes(s) : \A y \in speaker_dashes(s) : y <= x
         IN  <<STag("speaker", NoAttrib)>> \o SubSeq(s, 1, d) \o <<ETag("speaker")>>
             \o SubSeq(s, d + 1, Len(s))

\* Step 2 of split_plain_text_to_blocks for one group of lines.
split_block(type, group, flags) ==
    LET joined == join_lines(group)
        staged == IF flags.match_stage THEN wrap_spans(joined, "(", ")", "stage", FALSE)
                  ELSE joined
        spoken == IF flags.match_speaker THEN wrap_speaker(staged) ELSE staged
        glossed == IF flags.match_chaya THEN wrap_spans(spoken, "[", "]", "chaya", TRUE)
                   ELSE spoken
    IN  PageBlock(type, glossed, NoValue, NoValue, NoValue, FALSE, NoValue)

\* The positions of the lines that come first under their key, in order.
RECURSIVE first_positions(_, _)
first_positions(keys, j) ==
    IF j > Len(keys) THEN <<>>
    ELSE (IF \A h \in 1..(j - 1) : keys[h] # keys[j] THEN <<j>> ELSE <<>>)
         \o first_positions(keys, j + 1)

split_plain_text_to_blocks(s, flags) ==
    LET lines == SelectSeq([k \in 1..Len(splitlines(s)) |-> strip(splitlines(s)[k])],
                           LAMBDA line : line # <<>>)
        ids == assign_ids(lines, 1, [ids |-> [j \in 1..Len(lines) |-> NoLineKey], id |-> 0]).ids
        keys == group_keys(ids)
        firsts == first_positions(keys, 1)
        type(key) == IF key.prefix = "f" THEN "footnote"
                     ELSE IF key.prefix = "v" THEN "verse" ELSE "p"
        group(key) == SelectSeq([j \in 1..Len(lines) |-> IF keys[j] = key THEN lines[j] ELSE <<>>],
                                LAMBDA line : line # <<>>)
    IN  [k \in 1..Len(firsts) |->
            split_block(type(keys[firsts[k]]), group(keys[firsts[k]]), flags)]

\* "".join(root.itertext()): the text of the element and of everything
\* inside it, in document order.
RECURSIVE itertext(_)
itertext(items) ==
    IF items = <<>> THEN <<>>
    ELSE (IF Head(items).kind = "element" THEN itertext(Head(items).items)
          ELSE <<Head(items)>>)
         \o itertext(Tail(items))

\* The parameters of split_plain_text_to_blocks and the keywords that
\* auto_structure_api calls it with: a keyword that is no parameter raises
\* TypeError.
split_parameters == {"text", "match_stage", "match_speaker", "match_chaya"}

auto_structure_keywords ==
    {"match_stage", "match_speaker", "match_chaya", "ignore_non_devanagari"}

Answer(status, body) == [status |-> status, body |-> body]

\* auto_structure_api after the request was validated: every exception
\* inside the try block is answered with 500.
auto_structure_api(request_content, flags) ==
    LET parsed == fromstring(request_content)
    IN  IF ~parsed.ok THEN Answer(500, Chars(<<"Auto-structuring failed">>))
        ELSE IF parsed.root.tag # "page"
        THEN Answer(400, Chars(<<"Invalid XML: root tag must be 'page'">>))
        ELSE IF ~(auto_structure_keywords \subseteq split_parameters)
        THEN Answer(500, Chars(<<"Auto-structuring failed">>))
        ELSE Answer(200, to_xml_string(ProofPage(0,
                split_plain_text_to_blocks(itertext(parsed.root.items), flags))))

\* The inputs of the structuring scenario.  Lines of plain text: a blank
\* line, a plain line, lines with a danda, with a double danda at the end
\* and at the start, a legacy footnote, a mostly Latin line and a Hindi one.
PlainLines ==
    {Chars(<<" ">>), Chars(<<"ka">>), Chars(<<"ka", "danda">>),
     Chars(<<"ka", "double_danda">>), Chars(<<"double_danda", "ka">>),
     Chars(<<"[", "^", "1", "]", " ", "ka", "danda">>),
     Chars(<<"latin40", "danda", "double_danda">>),
     Chars(<<"ka", "danda", " ", "hai">>)}

\* Lexemes of markup, from which well-formed and malformed XML is drawn.
XmlTokens ==
    {STag("page", NoAttrib), ETag("page"), STag("p", "mark" :> Chars(<<"1">>)),
     ETag("p"), Ch("a")}

\* Lines for split_plain_text_to_blocks: plain, danda, double danda, a
\* numbered footnote, a stage direction alone and a line with a speaker, a
\* stage direction and a gloss.
SplitLines ==
    {Chars(<<"ka">>), Chars(<<"ka", "danda">>), Chars(<<"ka", "double_danda">>),
     Chars(<<"deva_digit", ".", "ka">>), Chars(<<"(", "ka", ")">>),
     Chars(<<"ka", " ", "-", " ", "(", "ka", ")", "[", "ka", "]">>)}

\* Characters of a block's content: a letter, a carriage return, a form
\* feed and the two characters that markup is made of.
ContentChars == {Ch("a"), Ch("\r"), Ch("\f"), Ch("<"), Ch("&")}

Flags == [match_stage : BOOLEAN, match_speaker : BOOLEAN, match_chaya : BOOLEAN]

NoFlags == [match_stage |-> FALSE, match_speaker |-> FALSE, match_chaya |-> FALSE]

\* structuring_api and from_revision: a page is made of the text of a revision.
FromContentAndPageId ==
    /\ pc = "structure_start"
    /\ LET outcome == from_content_and_page_id(source_text, 1)
       IN  /\ proof_page' = outcome.page
           /\ pc' = IF outcome.raised THEN "segmenter_raised" ELSE "structured"
    /\ UNCHANGED <<source_text, xml_strings, match_flags, split_blocks, alignVars,
                   validateVars, proofVars, publishVars, rewriteVars, filterVars, diffVars>>

\* split_plain_text_to_blocks(text, match_stage, match_speaker, match_chaya),
\* called as the tests call it.
SplitPlainTextToBlocks ==
    /\ pc = "split_start"
    /\ split_blocks' = split_plain_text_to_blocks(source_text, match_flags)
    /\ pc' = "split"
    /\ UNCHANGED <<source_text, proof_page, xml_strings, match_flags, alignVars,
                   validateVars, proofVars, publishVars, rewriteVars, filterVars, diffVars>>

\* page.to_xml_string(), at most twice.
ToXmlString ==
    /\ pc \in {"page_built", "reparsed"}
    /\ xml_strings' = Append(xml_strings, to_xml_string(proof_page))
    /\ pc' = "rendered"
    /\ UNCHANGED <<source_text, proof_page, match_flags, split_blocks, alignVars,
                   validateVars, proofVars, publishVars, rewriteVars, filterVars, diffVars>>

\* ProofPage._from_xml_string of the string that was rendered first.
FromXmlString ==
    /\ pc = "rendered"
    /\ Len(xml_strings) = 1
    /\ LET outcome == _from_xml_string(xml_strings[1], proof_page.id)
       IN  /\ proof_page' = IF outcome.raised THEN proof_page ELSE outcome.page
           /\ pc' = IF outcome.raised THEN "parse_raised" ELSE "reparsed"
    /\ UNCHANGED <<source_text, xml_strings, match_flags, split_blocks, alignVars,
                   validateVars, proofVars, publishVars, rewriteVars, filterVars, diffVars>>

\* POST /api/proofing/auto-structure with a request that passes
\* AutoStructureRequest.
AutoStructureApi ==
    /\ pc = "auto_structure_start"
    /\ LET answer == auto_structure_api(source_text, match_flags)
       IN  /\ xml_strings' = IF answer.status = 200 THEN <<answer.body>> ELSE <<>>
           /\ pc' = CASE answer.status = 200 -> "auto_structured"
                      [] answer.status = 400 -> "auto_structure_refused"
                      [] OTHER -> "auto_structure_failed"
    /\ UNCHANGED <<source_text, proof_page, match_flags, split_blocks, alignVars,
                   validateVars, proofVars, publishVars, rewriteVars, filterVars, diffVars>>

NextStruct ==
    \/ FromContentAndPageId
    \/ SplitPlainTextToBlocks
    \/ ToXmlString
    \/ FromXmlString
    \/ AutoStructureApi

(***************************************************************************)
(* Initial states.  Each scenario starts one component and leaves the      *)
(* state of the others idle.  In the alignment scenario any two sequences  *)
(* are aligned once.                                                       *)
(***************************************************************************)
IdleAlign ==
    old_items = <<>> /\ new_items = <<>> /\ opcodes = <<>> /\ alignment = <<>>

IdleValidate == content = EmptyContent /\ results = <<>>

IdleRewrite == block = NoBlock /\ tei = NoBlock

IdlePublish ==
    /\ pages = << <<>> >>
    /\ tei_blocks = <<>>
    /\ last_n = [c \in BlockTypes |-> NoKey]
    /\ pending = {}
    /\ text_blocks = <<>>
    /\ requests = <<>>
    /\ report = ValidationResult(0, 0)

IdleProof ==
    /\ revisions = <<>>
    /\ page_version = 0
    /\ page_status = "reviewed-0"
    /\ suggestions = <<>>
    /\ response = "none"
    /\ conflict = NoConflict

NoCandidate == [image_number |-> 0, block_index |-> 0, page_xml |-> <<>>]


IdleFilter ==
    /\ target = <<>> /\ candidate = NoCandidate /\ matched = "none" /\ config = <<>>
    /\ posted = <<>> /\ parsed_filter = NoFilter

IdleStruct ==
    /\ source_text = <<>> /\ proof_page = NoPage /\ xml_strings = <<>>
    /\ match_flags = NoFlags /\ split_blocks = <<>>

IdleDiff == old_str = <<>> /\ new_str = <<>> /\ diff_ops = <<>>

IdleLater == IdleFilter /\ IdleStruct /\ IdleDiff

IdleEarlier == IdleAlign /\ IdleValidate /\ IdleProof /\ IdlePublish /\ IdleRewrite

\* Diff scenario: any two short strings are compared once.
InitDiff ==
    /\ pc = "diff_start"
    /\ old_str \in SeqsUpTo(CodePoints, MaxLen)
    /\ new_str \in SeqsUpTo(CodePoints, MaxLen)
    /\ diff_ops = <<>>
    /\ IdleEarlier /\ IdleFilter /\ IdleStruct

\* Structuring scenario: a text is made into a page, a text is split into
\* blocks, or a page of one block without inline marks is rendered, parsed
\* and rendered again.
InitStruct ==
    /\ \/ /\ pc = "structure_start"
          /\ \/ \E ls \in SeqsUpTo(PlainLines, MaxLines) : source_text = join_lines(ls)
             \/ \E t \in SeqsUpTo(XmlTokens, MaxLen) :
                    source_text \in {t, <<STag("page", NoAttrib)>> \o t \o <<ETag("page")>>}
          /\ match_flags = NoFlags
          /\ proof_page = NoPage
       \/ /\ pc = "split_start"
          /\ \/ \E ls \in SeqsUpTo(SplitLines, MaxLines) :
                    source_text = join_lines(ls) /\ match_flags \in Flags
             \/ \E t \in SeqsUpTo(XmlTokens, MaxLen) :
                    source_text = t /\ match_flags = NoFlags
          /\ proof_page = NoPage
       \/ /\ pc = "auto_structure_start"
          /\ \E t \in SeqsUpTo(XmlTokens, MaxLen) :
                source_text \in {t, <<STag("page", NoAttrib)>> \o t \o <<ETag("page")>>}
          /\ match_flags \in Flags
          /\ proof_page = NoPage
       \/ /\ pc = "page_built"
          /\ source_text = <<>>
          /\ match_flags = NoFlags
          /\ \E c \in SeqsUpTo(ContentChars, MaxLen) :
                proof_page \in
                    {ProofPage(1, <<PageBlock("p", c, NoValue, NoValue, NoValue, FALSE, NoValue)>>),
                     ProofPage(1, <<PageBlock("footnote", c, Chars(<<"sa">>), NoValue, NoValue,
                                              TRUE, Chars(<<"1">>))>>)}
    /\ xml_strings = <<>>
    /\ split_blocks = <<>>
    /\ IdleEarlier /\ IdleFilter /\ IdleDiff

\* Filter scenario: a filter is made of an expression and asked about one
\* block of a page of up to MaxLen blocks on one of the images 1 to 5, or a
\* publish configuration of one or two targets is posted.
InitFilter ==
    /\ \/ /\ pc = "filter_start"
          /\ target \in Expressions \cup Malformed
          /\ \E n \in 1..MaxLen, image_number \in 1..5, tag \in {"p", "verse"} :
                \E labels \in [1..n -> {NoLabel, "a", "b"}], block_index \in 0..(n - 1) :
                    candidate = IndexedBlock(image_number, block_index,
                        [k \in 1..n |-> [tag |-> IF k = block_index + 1 THEN tag ELSE "p",
                                         text |-> labels[k]]])
          /\ posted = <<>>
          /\ config = <<>>
       \/ /\ pc = "config_start"
          /\ target = <<>>
          /\ candidate = NoCandidate
          /\ posted \in [1..1 -> Targets] \cup [1..2 -> Targets]
          /\ config \in {<<>>, <<<<"(", "and", ")">>>>}
    /\ parsed_filter = NoFilter
    /\ matched = "none"
    /\ IdleEarlier /\ IdleStruct /\ IdleDiff

InitValidate ==
    /\ pc = "validate_start"
    /\ \/ content \in {TextContent, EmptyContent}
       \/ \E n \in 1..MaxNodes, r \in RootElements :
            \E es \in [2..n -> InnerElements], ps \in Parents(n) :
                content = Document(n, r, es, ps)
       \/ \E block_type \in {"p", "verse"}, outer \in InlineType, inner \in InlineType :
            content = NestedMarksPage(block_type, outer, inner)
    /\ results = <<>>
    /\ IdleAlign /\ IdleProof /\ IdlePublish /\ IdleRewrite
    /\ IdleLater

InitProof ==
    /\ pc = "serving"
    /\ revisions = <<>>
    /\ page_version = 0
    /\ page_status = "reviewed-0"
    /\ suggestions = <<>>
    /\ response = "none"
    /\ conflict = NoConflict
    /\ IdleAlign /\ IdleValidate /\ IdlePublish /\ IdleRewrite
    /\ IdleLater

InitPublish ==
    /\ pc = "assembling"
    /\ pages = << <<>> >>
    /\ tei_blocks = <<>>
    /\ last_n = [c \in BlockTypes |-> NoKey]
    /\ pending = {}
    /\ text_blocks = <<>>
    /\ requests = <<>>
    /\ report = ValidationResult(0, 0)
    /\ IdleAlign /\ IdleValidate /\ IdleProof /\ IdleRewrite
    /\ IdleLater

\* The text holds the records of a document that was published before,
\* when all its blocks were in section 1; the two requests have assembled
\* their documents and have read nothing yet.
InitRepublish ==
    /\ pc = "republishing"
    /\ \E published \in SeqsUpTo({b \in RepublishChoices : b.section_id = 1}, MaxStored) :
            text_blocks = create(<<>>, new_doc_blocks_of(published),
                                 block_sections_of(published), 1)
    /\ requests \in [RequestIds -> {Request("started", document, <<>>) :
                                        document \in RepublishDocuments}]
    /\ pages = << <<>> >>
    /\ tei_blocks = <<>>
    /\ last_n = [c \in BlockTypes |-> NoKey]
    /\ pending = {}
    /\ report = ValidationResult(0, 0)
    /\ IdleAlign /\ IdleValidate /\ IdleProof /\ IdleRewrite
    /\ IdleLater

InitRewrite ==
    /\ pc = "rewrite_start"
    /\ block \in RewriteBlocks
    /\ tei = block
    /\ IdleAlign /\ IdleValidate /\ IdleProof /\ IdlePublish
    /\ IdleLater

InitAlign ==
    /\ pc = "align_start"
    /\ old_items \in SeqsUpTo(Items, MaxLen)
    /\ new_items \in SeqsUpTo(Items, MaxLen)
    /\ opcodes = <<>>
    /\ alignment = <<>>
    /\ IdleValidate /\ IdleProof /\ IdlePublish /\ IdleRewrite
    /\ IdleLater

Align ==
    /\ pc = "align_start"
    /\ opcodes' = get_opcodes(old_items, new_items)
    /\ alignment' = _align_blocks(old_items, new_items)
    /\ pc' = "aligned"
    /\ UNCHANGED <<old_items, new_items, validateVars, proofVars, publishVars,
                   rewriteVars,
                   filterVars, structVars, diffVars>>

NextAlign == Align

(***************************************************************************)
(* Specifications, one per scenario; the state of the other components is  *)
(* left idle.                                                              *)
(***************************************************************************)
SpecAlign == InitAlign /\ [][NextAlign]_vars

SpecDiff == InitDiff /\ [][NextDiff]_vars

SpecStruct == InitStruct /\ [][NextStruct]_vars

SpecFilter == InitFilter /\ [][NextFilter]_vars

SpecValidate == InitValidate /\ [][NextValidate]_vars

SpecProof == InitProof /\ [][NextProof]_vars

SpecPublish == InitPublish /\ [][NextPublish]_vars

SpecRewrite == InitRewrite /\ [][NextRewrite]_vars

SpecRepublish == InitRepublish /\ [][NextRepublish]_vars

(***************************************************************************)
(* Properties of the alignment engine                                      *)
(***************************************************************************)
\* Length of the longest common subsequence of a[1..n] and b[1..m].
RECURSIVE LCSLen(_, _, _, _)
LCSLen(a, b, n, m) ==
    IF n = 0 \/ m = 0 THEN 0
    ELSE IF a[n] = b[m] THEN LCSLen(a, b, n - 1, m - 1) + 1
    ELSE LET x == LCSLen(a, b, n - 1, m)
             y == LCSLen(a, b, n, m - 1)
         IN  IF x >= y THEN x ELSE y

\* The pairs that come from the equal regions of the opcodes.
EqualPairs ==
    {p \in Range(alignment) :
        \E n \in 1..Len(opcodes) :
            /\ opcodes[n].tag = "equal"
            /\ p[1] >= opcodes[n].a0 /\ p[1] < opcodes[n].a1
            /\ p[2] >= opcodes[n].b0 /\ p[2] < opcodes[n].b1}

\* What a replace region of a_len old and b_len new items has to turn into.
ExpectedReplacePairs(op) ==
    LET a_len == op.a1 - op.a0
        b_len == op.b1 - op.b0
        common == Min(a_len, b_len)
        longest == IF a_len >= b_len THEN a_len ELSE b_len
    IN  [k \in 1..longest |->
            IF k <= common THEN <<op.a0 + k - 1, op.b0 + k - 1>>
            ELSE IF a_len > b_len THEN <<op.a0 + k - 1, None>>
            ELSE <<None, op.b0 + k - 1>>]

\* C1: every replace region of the opcodes appears in the alignment as
\* min(a, b) positional pairs followed by the unpaired remainder of the longer
\* side; a replace region of equal lengths leaves no (i, None) or (None, j)
\* pair for its indexes; [a, b, c] against [a, x, c] gives (0,0), (1,1), (2,2).
ReplaceRegionPairsPositionally ==
    pc = "aligned" =>
        /\ \A n \in 1..Len(opcodes) :
            opcodes[n].tag = "replace" =>
                LET op == opcodes[n]
                    exp == ExpectedReplacePairs(op)
                IN  /\ \E s \in 0..Len(alignment) :
                            /\ s + Len(exp) <= Len(alignment)
                            /\ \A k \in 1..Len(exp) : alignment[s + k] = exp[k]
                    /\ (op.a1 - op.a0 = op.b1 - op.b0) =>
                            /\ \A i \in op.a0..(op.a1 - 1) : <<i, None>> \notin Range(alignment)
                            /\ \A j \in op.b0..(op.b1 - 1) : <<None, j>> \notin Range(alignment)
        /\ (old_items = <<"a", "b", "c">> /\ new_items = <<"a", "x", "c">>) =>
                alignment = << <<0, 0>>, <<1, 1>>, <<2, 2>> >>

\* C1 witness: an alignment with a replace region of two old items and one
\* new item, so that both the positional pair and a remainder occur.
ReplaceRegionWitness ==
    /\ pc = "aligned"
    /\ \E n \in 1..Len(opcodes) :
        /\ opcodes[n].tag = "replace"
        /\ opcodes[n].a1 - opcodes[n].a0 = 2
        /\ opcodes[n].b1 - opcodes[n].b0 = 1
        /\ <<opcodes[n].a0 + 1, None>> \in Range(alignment)

\* C2 as stated: the number of pairs from equal regions is the length of the
\* longest common subsequence of old and new.
EqualPairsAreLongestCommonSubsequence ==
    pc = "aligned" =>
        Cardinality(EqualPairs) = LCSLen(old_items, new_items,
                                         Len(old_items), Len(new_items))

\* C2 amended: the pairs from equal regions pair equal items and are strictly
\* increasing in both indexes, so they form a common subsequence of old and
\* new, and their number is at most the length of the longest one.
EqualPairsAreCommonSubsequence ==
    pc = "aligned" =>
        /\ \A p \in EqualPairs : At(old_items, p[1]) = At(new_items, p[2])
        /\ \A p, q \in EqualPairs : p[1] < q[1] <=> p[2] < q[2]
        /\ Cardinality(EqualPairs) <= LCSLen(old_items, new_items,
                                             Len(old_items), Len(new_items))

\* C2 witness: an alignment whose equal regions are shorter than the longest
\* common subsequence.
EqualPairsBelowLCSWitness ==
    /\ pc = "aligned"
    /\ EqualPairs # {}
    /\ Cardinality(EqualPairs) < LCSLen(old_items, new_items,
                                        Len(old_items), Len(new_items))

(***************************************************************************)
(* Properties of the proofing-XML validator                                *)
(***************************************************************************)
KnownTags == DOMAIN PROOFING_XML_VALIDATION_SPEC

\* The tags on the way from the root down to element x.
RECURSIVE PathOf(_, _)
PathOf(nodes, x) ==
    IF x = 1 THEN <<nodes[1].tag>>
    ELSE Append(PathOf(nodes, nodes[x].parent), nodes[x].tag)

\* Every proper ancestor of element x has a known tag.
RECURSIVE UnderKnownTags(_, _)
UnderKnownTags(nodes, x) ==
    \/ x = 1
    \/ /\ nodes[nodes[x].parent].tag \in KnownTags
       /\ UnderKnownTags(nodes, nodes[x].parent)

\* The schema violations of element x: <<x, "unknown", 0>> for an unknown
\* tag, <<x, "child", 0>> for an element that is no legal child of its
\* parent, <<x, "attribute", k>> for its k-th attribute when that is illegal.
ViolationsOf(nodes, x) ==
    {v \in {<<x, "unknown", 0>>} : nodes[x].tag \notin KnownTags}
    \cup {v \in {<<x, "child", 0>>} :
            /\ x # 1
            /\ nodes[nodes[x].parent].tag \in KnownTags
            /\ nodes[x].tag \notin
                  PROOFING_XML_VALIDATION_SPEC[nodes[nodes[x].parent].tag].children}
    \cup {<<x, "attribute", k>> : k \in {j \in 1..Len(nodes[x].attrib) :
            /\ nodes[x].tag \in KnownTags
            /\ nodes[x].attrib[j] \notin
                  PROOFING_XML_VALIDATION_SPEC[nodes[x].tag].attrib}}

\* The error that reports a violation.
ErrorFor(nodes, v) ==
    IF v[2] = "unknown"
    THEN Error("unknown", nodes[v[1]].tag, nodes[v[1]].tag, PathOf(nodes, v[1]))
    ELSE IF v[2] = "child"
    THEN Error("child", nodes[v[1]].tag, nodes[nodes[v[1]].parent].tag,
               PathOf(nodes, nodes[v[1]].parent))
    ELSE Error("attribute", nodes[v[1]].attrib[v[3]], nodes[v[1]].tag,
               PathOf(nodes, v[1]))

SchemaErrors == SelectSeq(results, LAMBDA e : e.kind \in {"unknown", "child", "attribute"})

Occurrences(seq, e) == Cardinality({k \in 1..Len(seq) : seq[k] = e})

PageRootedValidated ==
    /\ pc = "validated"
    /\ content.kind = "xml"
    /\ content.nodes[1].tag = "page"

\* C4 as stated: every violation of every element of a page-rooted document
\* has its error in the returned list, also inside unknown elements.
EveryViolationEverywhereReported ==
    PageRootedValidated =>
        \A x \in 1..Len(content.nodes) :
            \A v \in ViolationsOf(content.nodes, x) :
                ErrorFor(content.nodes, v) \in Range(results)

\* C4 amended: every violation of every element that does not lie inside an
\* element with an unknown tag is reported, each exactly once and nothing
\* else is reported as a schema error; elements inside an unknown element
\* are not examined.
EveryViolationUnderKnownTagsReported ==
    PageRootedValidated =>
        LET nodes == content.nodes
            examined == {x \in 1..Len(nodes) : UnderKnownTags(nodes, x)}
            expected == UNION {ViolationsOf(nodes, x) : x \in examined}
        IN  /\ \A v \in expected : ErrorFor(nodes, v) \in Range(results)
            /\ \A e \in Range(SchemaErrors) \cup {ErrorFor(nodes, v) : v \in expected} :
                    Occurrences(SchemaErrors, e)
                        = Cardinality({v \in expected : ErrorFor(nodes, v) = e})

\* C4 witness: a validated page in which an element that is an illegal (but
\* known) child carries a violation of its own, so that more than the first
\* violation has to be reported.
NestedViolationWitness ==
    /\ PageRootedValidated
    /\ \E x \in 2..Len(content.nodes) :
        /\ UnderKnownTags(content.nodes, x)
        /\ ViolationsOf(content.nodes, x) # {}
        /\ content.nodes[x].parent # 1
        /\ <<content.nodes[x].parent, "child", 0>>
                \in ViolationsOf(content.nodes, content.nodes[x].parent)
        /\ \A v \in ViolationsOf(content.nodes, x) :
                ErrorFor(content.nodes, v) \in Range(results)
    /\ Len(results) >= 2

\* C5: a well-formed document whose root is not 'page' gets exactly one
\* error, the one naming the required root 'page', and nothing else of the
\* document is checked.
WrongRootSingleError ==
    (pc = "validated" /\ content.kind = "xml" /\ content.nodes[1].tag # "page") =>
        results = <<Error("root", "page", content.nodes[1].tag, <<>>)>>

\* C5 witness: a validated document with root 'foo' that has an illegal
\* attribute and an unknown element inside, which a page would be blamed for.
WrongRootWitness ==
    /\ pc = "validated"
    /\ content.kind = "xml"
    /\ content.nodes[1].tag = "foo"
    /\ content.nodes[1].attrib # <<>>
    /\ \E x \in 2..Len(content.nodes) : content.nodes[x].tag = "unk"
    /\ Len(results) = 1

\* The nestings of one mark directly inside another that the schema table
\* lists: every inline type has every inline type among its children.
NestingsAllowedByTable == InlineType \X InlineType

StoredContentPassesValidation ==
    /\ \A k \in 1..Len(revisions) :
            validate_proofing_xml(revisions[k].content) = <<>>
    /\ \A k \in 1..Len(suggestions) :
            validate_proofing_xml(suggestions[k].content) = <<>>

\* The suggestion id is based on a revision that is not the latest one of the
\* page, or the page has no revision.
IsStale(id) ==
    revisions = <<>> \/ revisions[Len(revisions)].id # suggestions[id].revision_id

\* The step is the answer to a review request (accept, submit_review or
\* reject) of user on the suggestion id.
ReviewedBy(user, id) ==
    \/ accept(user, id)
    \/ reject(user, id)
    \/ \E c \in ReviewContents : submit_review(user, id, c)

\* The step is the answer to a save of user (page_save_api or edit_post).
SavedBy(user) ==
    \E c \in ContentsFrom(user), version \in Versions, status \in PageStatuses :
        page_save_api(user, c, version, status) \/ edit_post(user, c, version, status)

\* What accept, submit_review and reject answer with.
ReviewAnswers ==
    {"redirect-login", "not-found", "already-processed", "stale", "accepted",
     "rejected", "404", "400", "409", "400-missing-content"}

\* What the direct-save flow answers with.
DirectSaveAnswers == {"saved", "skipped", "conflict"}

StatusesUnchanged ==
    \A id \in DOMAIN suggestions : suggestions'[id].status = suggestions[id].status

\* A step that changes neither the suggestions nor the revisions and is not
\* answered as a review is answered, other than with 400 (or 409), cannot
\* break C22 (or C23); the properties name such steps first.
\*
\* C22: a suggestion's status only ever moves from PENDING to ACCEPTED or
\* from PENDING to REJECTED.  accept, submit_review and reject on a
\* suggestion that is already ACCEPTED or REJECTED leave every status
\* unchanged and create no revision, and submit_review answers 400 to the
\* proofreader.  A request of a user without proofreader rights changes no
\* suggestion's status.
StatusOnlyLeavesPending ==
    [][\/ /\ suggestions' = suggestions
          /\ revisions' = revisions
          /\ response' \notin (ReviewAnswers \ {"400"})
       \/ /\ \A id \in DOMAIN suggestions :
                suggestions'[id].status # suggestions[id].status =>
                    /\ suggestions[id].status = "PENDING"
                    /\ suggestions'[id].status \in {"ACCEPTED", "REJECTED"}
          /\ \A id \in DOMAIN suggestions :
                suggestions[id].status # "PENDING" =>
                    /\ \/ StatusesUnchanged /\ revisions' = revisions
                       \/ \A user \in Users : ~ReviewedBy(user, id)
                    /\ \/ response' = "400"
                       \/ \A c \in ReviewContents : ~submit_review("p1", id, c)
          /\ \/ StatusesUnchanged
             \/ \A user \in Users :
                    is_p1(user)
                    \/ (/\ ~SavedBy(user)
                        /\ \A id \in DOMAIN suggestions : ~ReviewedBy(user, id))
      ]_vars

\* C22 witness: a review was submitted for a rejected suggestion whose base
\* revision is still the latest one, and it was answered 400.
ProcessedSuggestionReviewedWitness ==
    /\ response = "400"
    /\ \E id \in DOMAIN suggestions :
        suggestions[id].status = "REJECTED" /\ ~IsStale(id)

\* C23: accept and submit_review on a PENDING suggestion whose base revision
\* is not the latest revision of its page, or whose page has no revision,
\* create no revision and leave the suggestion PENDING; submit_review
\* answers 409 to the proofreader.
StaleSuggestionStaysPending ==
    [][\/ /\ suggestions' = suggestions
          /\ revisions' = revisions
          /\ response' \notin (ReviewAnswers \ {"409"})
       \/ \A id \in DOMAIN suggestions :
            (suggestions[id].status = "PENDING" /\ IsStale(id)) =>
                /\ \/ revisions' = revisions /\ suggestions'[id].status = "PENDING"
                   \/ \A user \in Users :
                        /\ ~accept(user, id)
                        /\ \A c \in ReviewContents : ~submit_review(user, id, c)
                /\ \/ response' = "409"
                   \/ \A c \in ReviewContents : ~submit_review("p1", id, c)
      ]_vars

\* C23 witness: the review of a pending suggestion that is based on the
\* first of two revisions was answered 409.
StaleReviewRefusedWitness ==
    /\ response = "409"
    /\ Len(revisions) = 2
    /\ \E id \in DOMAIN suggestions :
        /\ suggestions[id].status = "PENDING"
        /\ suggestions[id].revision_id = revisions[1].id

\* The contents that pass the checks of the save handlers.
SavedContents ==
    {c \in RequestContents : c.kind # "empty" /\ validate_proofing_xml(c) = <<>>}

\* The step is the answer to a direct save of the proofreader that carries
\* content c, the page version `version` and the status `status`.
DirectSave(c, version, status) ==
    /\ SaveDirectly(c, version, status)
    /\ page_save_api("p1", c, version, status) \/ edit_post("p1", c, version, status)

HasChanged(c, status) == latest_content # c \/ page_status # status

AtMostOneAcceptedPerRevision ==
    /\ \A i, j \in DOMAIN suggestions :
            (/\ suggestions[i].status = "ACCEPTED"
             /\ suggestions[j].status = "ACCEPTED"
             /\ suggestions[i].revision_id = suggestions[j].revision_id) => i = j
    /\ \A i \in DOMAIN suggestions :
            suggestions[i].status = "ACCEPTED" => IsStale(i)

\* C27 witness: of two suggestions based on the same revision one was
\* accepted, and the acceptance of the other one was refused as stale.
SiblingSuggestionStaleWitness ==
    /\ response \in {"stale", "409"}
    /\ \E i, j \in DOMAIN suggestions :
        /\ i # j
        /\ suggestions[i].revision_id = suggestions[j].revision_id
        /\ suggestions[i].status = "ACCEPTED"
        /\ suggestions[j].status = "PENDING"

(***************************************************************************)
(* Properties of the published document                                    *)
(***************************************************************************)
\* The proofing blocks read so far, by page and by index on the page.
Positions ==
    UNION {{<<p, k>> : k \in 0..(Len(pages[p + 1]) - 1)} : p \in 0..(Len(pages) - 1)}

SourceBlock(pos) == pages[pos[1] + 1][pos[2] + 1]

\* Document order of the proofing blocks.
Precedes(a, b) == a[1] < b[1] \/ (a[1] = b[1] /\ a[2] < b[2])

\* The block itself: the second child of a speech wrapper.
InnerBlock(xml) == IF xml.tag = "sp" THEN xml.body[2] ELSE xml

\* The output blocks that hold the text of a proofing block.
Holds(i, pos) ==
    LET body == InnerBlock(tei_blocks[i].xml).body
    IN  \E j \in 1..Len(body) : body[j] = Fragment(pos[1], pos[2])

HoldersOf(pos) == {i \in 1..Len(tei_blocks) : Holds(i, pos)}

HolderOf(pos) == CHOOSE i \in 1..Len(tei_blocks) : Holds(i, pos)

\* The ordering key a proofing block ended up with, and with its tag.
OrderingKeyOf(pos) ==
    InnerBlock(tei_blocks[HolderOf(pos)].xml).n

TagAndKeyOf(pos) ==
    <<InnerBlock(tei_blocks[HolderOf(pos)].xml).tag, OrderingKeyOf(pos)>>

NumPageBreaks(body) == Cardinality({j \in 1..Len(body) : body[j] = PageBreak})

\* C3 as stated: in the published document no two blocks carry the same
\* slug, and the unique-n rule reports num_ok = 1 exactly when no two blocks
\* with a non-empty n share that n.
SlugsUniqueInPublishedDocument ==
    /\ pc \in {"published", "reported"} =>
        /\ \A i, j \in 1..Len(tei_blocks) :
                i # j => tei_blocks[i].slug # tei_blocks[j].slug
        /\ \A i, j \in 1..Len(text_blocks) :
                i # j => text_blocks[i].slug # text_blocks[j].slug
    /\ pc = "reported" =>
        (report.num_ok = 1 <=>
            \A i, j \in 1..Len(text_blocks) :
                (i # j /\ text_blocks[i].xml.n # NoKey)
                    => text_blocks[i].xml.n # text_blocks[j].xml.n)

\* C7: every output block is a chain of proofing blocks of consecutive pages,
\* of one type and one ordering key, each but the last with merge-next; its
\* fragments are joined by one <pb n="-" /> each, inside the block itself
\* when a speech wrapper surrounds it, so that a chain of k merge-next blocks
\* has k markers; it is attributed to the first page of the chain; and a
\* merge-next block is never left apart from the block of the next page
\* that has its type and key.
MergeNextChainsAcrossPages ==
    /\ \A pos \in Positions : Cardinality(HoldersOf(pos)) = 1
    /\ \A i \in 1..Len(tei_blocks) :
        LET xml == tei_blocks[i].xml
            inner == InnerBlock(xml)
            body == inner.body
            m == Len(body) \div 2
        IN  /\ Len(body) = 2 * m + 1
            /\ xml.tag = "sp" => (Len(xml.body) = 2 /\ xml.body[1] = Speaker)
            /\ \A j \in 0..m :
                /\ body[2 * j + 1].kind = "text"
                /\ body[2 * j + 1].page = body[1].page + j
                /\ <<body[2 * j + 1].page, body[2 * j + 1].index>> \in Positions
                /\ LET src == SourceBlock(<<body[2 * j + 1].page, body[2 * j + 1].index>>)
                   IN  /\ (IF src.type = "verse" THEN "lg" ELSE src.type) = inner.tag
                       /\ src.n # NoKey => src.n = inner.n
                       /\ j < m => src.merge_next
            /\ \A j \in 1..m : body[2 * j] = PageBreak /\ body[2 * j].n = <<"-">>
            /\ NumPageBreaks(body) = m
            /\ tei_blocks[i].page_id = body[1].page
    /\ \A a \in Positions :
        SourceBlock(a).merge_next =>
            LET chain == TagAndKeyOf(a)
            IN  \A b \in Positions :
                    (/\ b[1] = a[1] + 1
                     /\ TagAndKeyOf(b) = chain
                     /\ \A c \in Positions :
                            (c[1] = a[1] /\ c[2] > a[2]) => TagAndKeyOf(c) # chain
                     /\ \A c \in Positions :
                            (c[1] = b[1] /\ c[2] < b[2]) => TagAndKeyOf(c) # chain)
                    => HolderOf(a) = HolderOf(b)

\* C7 witness: a paragraph with a speaker that runs over three pages has
\* become one output block of the first page with two markers inside the
\* paragraph of the speech wrapper.
ThreePageSpeechChainWitness ==
    \E i \in 1..Len(tei_blocks) :
        /\ tei_blocks[i].xml.tag = "sp"
        /\ tei_blocks[i].page_id = 0
        /\ Len(tei_blocks[i].xml.body[2].body) = 5
        /\ NumPageBreaks(tei_blocks[i].xml.body[2].body) = 2
        /\ Len(pages) = 3

\* next is prev with its numeric suffix incremented and what precedes the
\* suffix kept, or prev followed by 2 when prev has no numeric suffix.
IsIncrementOf(next, prev) ==
    LET d == NumericSuffixLen(prev)
        stem == Len(prev) - d
    IN  IF d = 0 THEN next = prev \o <<"2">>
        ELSE /\ Len(next) > stem
             /\ SubSeq(next, 1, stem) = SubSeq(prev, 1, stem)
             /\ NumericSuffixLen(next) >= Len(next) - stem
             /\ next[stem + 1] # "0"
             /\ ToInt(SubSeq(next, stem + 1, Len(next)))
                    = ToInt(SubSeq(prev, stem + 1, Len(prev))) + 1

\* The increments that are spelled out for the four key schemes.
SchemeExamples ==
    {<< <<"1">>, <<"2">> >>, << <<"2">>, <<"3">> >>,
     << <<"1", ".", "1">>, <<"1", ".", "2">> >>,
     << <<"1", ".", "2">>, <<"1", ".", "3">> >>,
     << <<"p", "1">>, <<"p", "2">> >>, << <<"p", "2">>, <<"p", "3">> >>,
     << <<"f", "o", "o">>, <<"f", "o", "o", "2">> >>,
     << <<"f", "o", "o", "2">>, <<"f", "o", "o", "3">> >>}

\* The proofing blocks of the type of pos that precede it, and the nearest.
PrecedingOfType(pos) ==
    {q \in Positions : Precedes(q, pos) /\ SourceBlock(q).type = SourceBlock(pos).type}

NearestPreceding(pos) ==
    CHOOSE q \in PrecedingOfType(pos) :
        \A r \in PrecedingOfType(pos) : r = q \/ Precedes(r, q)

\* C8 as stated: the slug of a block with an explicit ordering key is that
\* key, and the slug of a block without one is the increment of the nearest
\* preceding key.
ExplicitKeyIsSlugElseIncrement ==
    \A pos \in Positions :
        LET slug == tei_blocks[HolderOf(pos)].slug
        IN  /\ SourceBlock(pos).n # NoKey => slug = SourceBlock(pos).n
            /\ (SourceBlock(pos).n = NoKey /\ PrecedingOfType(pos) # {}) =>
                    IsIncrementOf(slug, OrderingKeyOf(NearestPreceding(pos)))

\* C8 amended: a block with an explicit ordering key keeps it as its n, a
\* block without one gets the increment of the nearest preceding key of its
\* type, in each of the four key schemes as spelled out; the slug of the
\* output block is that key, unless a speaker mark promoted the block to a
\* speech wrapper, whose slug is the key prefixed with "sp".
ExplicitKeyKeptElseIncrement ==
    \A pos \in Positions :
        LET out == tei_blocks[HolderOf(pos)]
            key == InnerBlock(out.xml).n
            prev == OrderingKeyOf(NearestPreceding(pos))
        IN  /\ SourceBlock(pos).n # NoKey => key = SourceBlock(pos).n
            /\ (SourceBlock(pos).n = NoKey /\ PrecedingOfType(pos) # {}) =>
                    /\ IsIncrementOf(key, prev)
                    /\ \A ex \in SchemeExamples : prev = ex[1] => key = ex[2]
            /\ out.xml.tag # "sp" => out.slug = key
            /\ out.xml.tag = "sp" => out.slug = <<"s", "p">> \o key
            /\ out.slug = out.xml.n

\* C8 witness: a key without a numeric suffix has been incremented twice and
\* a keyed paragraph with a speaker has got the slug of its speech wrapper.
IncrementedTwiceWitness ==
    /\ Len(tei_blocks) = 3
    /\ tei_blocks[1].slug = <<"f", "o", "o">>
    /\ tei_blocks[2].slug = <<"f", "o", "o", "2">>
    /\ tei_blocks[3].slug = <<"s", "p", "f", "o", "o", "3">>
    /\ SourceBlock(<<0, 2>>).n = NoKey

\* The first blocks of the example: a paragraph keyed p1 and a verse keyed 1
\* on the first page, then an unkeyed paragraph, an unkeyed verse and an
\* unkeyed paragraph on the second, and the slugs they are to get.
ExamplePages ==
    << <<ProofBlock("p", <<"p", "1">>, FALSE, FALSE),
         ProofBlock("verse", <<"1">>, FALSE, FALSE)>>,
       <<ProofBlock("p", NoKey, FALSE, FALSE),
         ProofBlock("verse", NoKey, FALSE, FALSE),
         ProofBlock("p", NoKey, FALSE, FALSE)>> >>

ExampleSlugs == << <<"p", "1">>, <<"1">>, <<"p", "2">>, <<"2">>, <<"p", "3">> >>

\* C9: the key of an unkeyed block is the increment of the key of the
\* nearest preceding block of its own type, whatever blocks of the other
\* type and whatever page boundaries lie between the two; the pages of the
\* example get the slugs p1, 1, p2, 2, p3.
KeysTrackedPerBlockType ==
    /\ \A pos \in Positions :
        LET prev == NearestPreceding(pos)
        IN  (/\ SourceBlock(pos).n = NoKey
             /\ PrecedingOfType(pos) # {}
             /\ \/ prev[1] < pos[1]
                \/ \E q \in Positions : Precedes(prev, q) /\ Precedes(q, pos))
            => IsIncrementOf(OrderingKeyOf(pos), OrderingKeyOf(prev))
    /\ (/\ Len(pages) = 2
        /\ pages[1] = ExamplePages[1]
        /\ Len(pages[2]) <= Len(ExamplePages[2])
        /\ pages[2] = SubSeq(ExamplePages[2], 1, Len(pages[2])))
       => /\ Len(tei_blocks) = NumBlocks(pages)
          /\ \A i \in 1..Len(tei_blocks) : tei_blocks[i].slug = ExampleSlugs[i]

\* C9 witness: after the first page of the example an unkeyed paragraph of
\* the second page has got the slug p2.
MixedTypesWitness ==
    /\ Len(pages) = 2
    /\ pages[1] = ExamplePages[1]
    /\ pages[2] = <<ExamplePages[2][1]>>
    /\ Len(tei_blocks) = 3
    /\ tei_blocks[3].slug = <<"p", "2">>
    /\ tei_blocks[3].page_id = 1

(***************************************************************************)
(* Properties of the block rewrite                                         *)
(***************************************************************************)
\* The rewritten marks that hold the reading of the k-th mark of the block.
HoldersOfMark(k) ==
    {j \in 1..Len(tei.children) :
        block.children[k].text \in
            {tei.children[j].sic, tei.children[j].corr, tei.children[j].text}}

HolderOfMark(k) == CHOOSE j \in HoldersOfMark(k) : TRUE

\* The k-th mark and the next are an error and a fix, in either order, with
\* nothing but whitespace between them.
AdjacentPair(k) ==
    /\ k >= 1
    /\ k < Len(block.children)
    /\ {block.children[k].tag, block.children[k + 1].tag} = {"error", "fix"}
    /\ block.children[k].tail \in {"", " "}

\* C10: every mark is rewritten into exactly one construct, in order; an
\* error and a fix share a construct only when they are adjacent with
\* nothing but whitespace between them, and then it is a choice with the
\* error as sic and the fix as corr; they do share one when neither has
\* another partner on its other side; an error without an adjacent fix is a
\* choice with an empty corr, a fix without an adjacent error a supplied; the
\* text before the marks and the text after every construct are kept.
ErrorAndFixCollapseWhenAdjacent ==
    pc = "rewritten" =>
        LET marks == block.children
            out == tei.children
        IN  /\ tei.text = block.text
            /\ \A k \in 1..Len(marks) : Cardinality(HoldersOfMark(k)) = 1
            /\ \A j \in 1..Len(out) : \E k \in 1..Len(marks) : HolderOfMark(k) = j
            /\ \A k, l \in 1..Len(marks) :
                /\ k < l => HolderOfMark(k) <= HolderOfMark(l)
                /\ (k < l /\ HolderOfMark(k) = HolderOfMark(l)) =>
                        (l = k + 1 /\ AdjacentPair(k))
            /\ \A k \in 1..Len(marks) :
                LET h == out[HolderOfMark(k)]
                    last == \A l \in 1..Len(marks) :
                                HolderOfMark(l) = HolderOfMark(k) => l <= k
                IN  /\ marks[k].tag = "error" =>
                            (h.tag = "choice" /\ h.sic = marks[k].text)
                    /\ marks[k].tag = "fix" =>
                            \/ h.tag = "choice" /\ h.corr = marks[k].text
                            \/ h.tag = "supplied" /\ h.text = marks[k].text
                    /\ marks[k].tag = "flag" =>
                            (h.tag = "unclear" /\ h.text = marks[k].text)
                    /\ last => h.tail = marks[k].tail
                    /\ (AdjacentPair(k) /\ ~AdjacentPair(k - 1) /\ ~AdjacentPair(k + 1))
                            => HolderOfMark(k) = HolderOfMark(k + 1)
                    /\ (marks[k].tag = "error" /\ ~AdjacentPair(k) /\ ~AdjacentPair(k - 1))
                            => h.corr = ""
                    /\ (marks[k].tag = "fix" /\ ~AdjacentPair(k) /\ ~AdjacentPair(k - 1))
                            => h.tag = "supplied"

\* C10 witness: an error that words separate from the fix after it has
\* become a choice with an empty corr, and that fix has been merged with
\* the error that follows it after a space.
SeparatedThenAdjacentWitness ==
    /\ pc = "rewritten"
    /\ Len(block.children) = 3
    /\ block.children[1].tag = "error" /\ block.children[1].tail = " tail "
    /\ block.children[2].tag = "fix" /\ block.children[2].tail = " "
    /\ block.children[3].tag = "error"
    /\ Len(tei.children) = 2
    /\ tei.children[1].tag = "choice" /\ tei.children[1].corr = ""
    /\ tei.children[2].tag = "choice"
    /\ tei.children[2].sic = block.children[3].text
    /\ tei.children[2].corr = block.children[2].text

(***************************************************************************)
(* Properties of the revision diff                                         *)
(***************************************************************************)
\* The old fields, and the new fields, of the operations up to the k-th.
RECURSIVE OldOf(_)
OldOf(ops) == IF ops = <<>> THEN <<>> ELSE Head(ops).old \o OldOf(Tail(ops))

RECURSIVE NewOf(_)
NewOf(ops) == IF ops = <<>> THEN <<>> ELSE Head(ops).new \o NewOf(Tail(ops))

\* C19: the operations of revision_diff_ops are equal, insert, delete or
\* replace operations whose old fields concatenate to the old string and
\* whose new fields concatenate to the new string; an equal operation has
\* the same old and new, an insert an empty old, a delete an empty new.
DiffOpsReconstructBothSides ==
    pc = "diffed" =>
        /\ OldOf(diff_ops) = old_str
        /\ NewOf(diff_ops) = new_str
        /\ \A k \in 1..Len(diff_ops) :
            /\ diff_ops[k].op \in {"equal", "insert", "delete", "replace"}
            /\ diff_ops[k].op = "equal" => diff_ops[k].old = diff_ops[k].new
            /\ diff_ops[k].op = "insert" => diff_ops[k].old = <<>>
            /\ diff_ops[k].op = "delete" => diff_ops[k].new = <<>>

\* C19 witness: a diff of an equal operation over a grapheme of two code
\* points followed by a replace operation.
EqualThenReplaceWitness ==
    /\ pc = "diffed"
    /\ Len(diff_ops) = 2
    /\ diff_ops[1].op = "equal" /\ diff_ops[1].old = <<"k", "i">>
    /\ diff_ops[2].op = "replace"
    /\ diff_ops[2].old # <<>> /\ diff_ops[2].new # <<>>

(***************************************************************************)
(* Properties of structured pages                                          *)
(***************************************************************************)

\* C14: serialising is idempotent through parsing: the string rendered first
\* parses, and the page parsed from it renders to the same string.
SerialisingIdempotentThroughParsing ==
    /\ pc # "parse_raised"
    /\ Len(xml_strings) = 2 => xml_strings[2] = xml_strings[1]

\* C15: the segmenter never raises: from_content_and_page_id returns a page
\* with the given id for every text, and split_plain_text_to_blocks returns
\* blocks that are paragraphs, verses or footnotes.
SegmenterAlwaysReturns ==
    /\ pc # "segmenter_raised"
    /\ pc = "structured" => proof_page.id = 1
    /\ pc = "split" =>
        \A k \in 1..Len(split_blocks) : split_blocks[k].type \in {"p", "verse", "footnote"}

\* C15 witness: well-formed XML whose root is not a page was made into a
\* page of one paragraph that holds the text.
WrongRootSegmentedWitness ==
    /\ pc = "structured"
    /\ source_text = <<STag("p", "mark" :> Chars(<<"1">>)), Ch("a"), ETag("p")>>
    /\ Len(proof_page.blocks) = 1
    /\ proof_page.blocks[1].type = "p"
    /\ proof_page.blocks[1].content = source_text

\* The groups of lines of a text, and the lines of a group.
GroupsOf(s) == text_blocks_of([k \in 1..Len(splitlines(s)) |-> strip(splitlines(s)[k])], <<>>)

LinesOf(group) == split_on(group, "\n")

\* The text was made into a page by the heuristics, not by the XML parse.
StructuredByHeuristics == pc = "structured" /\ _from_xml_string(source_text, 1).raised

\* C16, as the code has it: the heuristics make one block per group of
\* lines, and the block is a verse exactly when the group does not start
\* with a footnote marker, its language is detected as Sanskrit, and it has
\* two lines with a danda somewhere in the first and a double danda
\* somewhere in the second, or four lines with a danda somewhere in the
\* second and a double danda somewhere in the fourth.
VerseWhenSanskritAndDandasContained ==
    StructuredByHeuristics =>
        LET groups == GroupsOf(source_text)
        IN  /\ Len(proof_page.blocks) = Len(groups)
            /\ \A k \in 1..Len(groups) :
                LET lines == LinesOf(groups[k])
                IN  proof_page.blocks[k].type = "verse" <=>
                        /\ ~(Len(groups[k]) >= 2 /\ groups[k][1] = Ch("[") /\ groups[k][2] = Ch("^"))
                        /\ proof_page.blocks[k].lang = Chars(<<"sa">>)
                        /\ \/ /\ Len(lines) = 2
                              /\ \E i \in 1..Len(lines[1]) : lines[1][i] = Ch("danda")
                              /\ \E i \in 1..Len(lines[2]) : lines[2][i] = Ch("double_danda")
                           \/ /\ Len(lines) = 4
                              /\ \E i \in 1..Len(lines[2]) : lines[2][i] = Ch("danda")
                              /\ \E i \in 1..Len(lines[4]) : lines[4][i] = Ch("double_danda")

\* C16 witness: a group of two lines whose second line holds its double
\* danda at the start was classified as a verse.
VerseWithDoubleDandaInsideWitness ==
    /\ StructuredByHeuristics
    /\ source_text = join_lines(<<Chars(<<"ka", "danda">>), Chars(<<"double_danda", "ka">>)>>)
    /\ Len(proof_page.blocks) = 1
    /\ proof_page.blocks[1].type = "verse"

\* C16 as stated: a group is a verse exactly when it has two lines, the
\* first containing a danda and the second ending in a double danda, or four
\* lines of which only the second contains a danda and the fourth ends in
\* a double danda.
VerseExactlyWhenDandaPattern ==
    StructuredByHeuristics =>
        LET groups == GroupsOf(source_text)
        IN  /\ Len(proof_page.blocks) = Len(groups)
            /\ \A k \in 1..Len(groups) :
                LET lines == LinesOf(groups[k])
                    has_danda(i) == \E j \in 1..Len(lines[i]) : lines[i][j] = Ch("danda")
                    ends_double(i) == lines[i][Len(lines[i])] = Ch("double_danda")
                IN  proof_page.blocks[k].type = "verse" <=>
                        \/ Len(lines) = 2 /\ has_danda(1) /\ ends_double(2)
                        \/ /\ Len(lines) = 4
                           /\ has_danda(2) /\ ~has_danda(1) /\ ~has_danda(3) /\ ~has_danda(4)
                           /\ ends_double(4)

\* C18: every block of a page that was parsed has a mark only if it is a
\* footnote.
MarkOnlyOnFootnotes ==
    pc \in {"structured", "reparsed"} =>
        \A k \in 1..Len(proof_page.blocks) :
            proof_page.blocks[k].mark # NoValue => proof_page.blocks[k].type = "footnote"

(***************************************************************************)
(* Properties of filters                                                   *)
(***************************************************************************)

\* What the atoms of the scenario's expressions stand for.
PageOfBound == ("2" :> 2 @@ "3" :> 3 @@ "4" :> 4 @@ "2:a" :> 2 @@ "3:a" :> 3 @@ "4:b" :> 4)

LabelOfBound ==
    ("2" :> NoLabel @@ "3" :> NoLabel @@ "4" :> NoLabel @@ "2:a" :> "a" @@ "3:a" :> "a"
     @@ "4:b" :> "b")

FilterAsked == pc = "filter_matched"

HeadOf(node) == node.items[1].value

ArgsOf(node) == Tail(node.items)

LabelAt(index) == candidate.page_xml[index + 1].text

\* C11: a filter (image N:a M:b) matches at block granularity.  It matches
\* nothing outside the pages N to M and everything on the pages strictly
\* between them; on page N it matches the blocks from the first one labelled
\* a on, on page M the blocks up to the first one labelled b, and a bound
\* that is a bare number takes its whole page; (image N:a) matches the first
\* block labelled a on page N only, and nothing when the page has none.
LabelledRangeMatchesAtBlockGranularity ==
    (FilterAsked /\ HeadOf(parsed_filter) = "image") =>
        LET args == ArgsOf(parsed_filter)
            lo == args[1].value
            hi == args[Len(args)].value
            N == PageOfBound[lo]
            M == PageOfBound[hi]
            p == candidate.image_number
            k == candidate.block_index
            carries(label) == \E j \in 0..(Len(candidate.page_xml) - 1) : LabelAt(j) = label
            is_match == matched = "match"
        IN  /\ (p < N \/ p > M) => ~is_match
            /\ (N < p /\ p < M) => is_match
            /\ (Len(args) = 1 /\ p = N /\ LabelOfBound[lo] # NoLabel) =>
                (is_match <=> /\ LabelAt(k) = LabelOfBound[lo]
                              /\ \A j \in 0..(k - 1) : LabelAt(j) # LabelOfBound[lo])
            /\ (Len(args) = 2 /\ p = N /\ LabelOfBound[lo] = NoLabel) => is_match
            /\ (Len(args) = 2 /\ p = N /\ LabelOfBound[lo] # NoLabel /\ carries(LabelOfBound[lo])) =>
                (is_match <=> \E j \in 0..k : LabelAt(j) = LabelOfBound[lo])
            /\ (Len(args) = 2 /\ p = M /\ LabelOfBound[hi] = NoLabel) => is_match
            /\ (Len(args) = 2 /\ p = M /\ LabelOfBound[hi] # NoLabel /\ carries(LabelOfBound[hi])) =>
                (is_match <=> \A j \in 0..(k - 1) : LabelAt(j) # LabelOfBound[hi])

\* C11 witness: (image 2:a 4:b) was asked about the second block of a page 2
\* whose blocks are labelled b, a and nothing, and matched.
RangeStartBlockWitness ==
    /\ FilterAsked
    /\ target = <<"(", "image", "2:a", "4:b", ")">>
    /\ candidate.image_number = 2
    /\ candidate.block_index = 1
    /\ [k \in 1..Len(candidate.page_xml) |-> candidate.page_xml[k].text] = <<"b", "a", NoLabel>>
    /\ matched = "match"

\* An expression with more opening than closing parentheses.
Unclosed(t) ==
    Cardinality({at \in 1..Len(t) : t[at] = "("}) > Cardinality({at \in 1..Len(t) : t[at] = ")"})

NoOpening(t) == t = <<>> \/ t[1] # "("

\* A new filter of a flawed expression fails with the message of the flaw and
\* leaves no filter behind.
FlawedExpressionMakesNoFilter ==
    (pc = "filter_start" /\ (NoOpening(target) \/ Unclosed(target) \/ target = DeeplyNested)) =>
        /\ pc' = "filter_failed"
        /\ parsed_filter' = NoFilter
        /\ matched' = IF NoOpening(target) THEN "must start with"
                      ELSE IF target = DeeplyNested THEN "levels deep"
                      ELSE "Missing closing parenthesis"

\* C12, as the code has it: a filter of an expression without an opening
\* parenthesis, without a closing one, or nested 50 deep fails with the
\* matching message and leaves no filter; the configuration handler stores
\* nothing when a target that starts with a parenthesis is unclosed or
\* nested 50 deep.  (A target without a parenthesis is taken as a label.)
FlawedFilterRefusedAndParenthesisedTargetNotStored ==
    [][/\ FlawedExpressionMakesNoFilter
       /\ (/\ pc = "config_start"
           /\ \E k \in 1..Len(posted) :
                ~NoOpening(posted[k]) /\ (Unclosed(posted[k]) \/ posted[k] = DeeplyNested))
            => config' = config]_vars

\* C12 witness: a configuration whose second target has no closing
\* parenthesis was answered with the filter error, and the stored
\* configuration is the old one.
UnclosedTargetRefusedWitness ==
    /\ pc = "config_answered"
    /\ posted = <<<<"(", "image", "2", "4", ")">>, <<"(", "image", "3">>>>
    /\ matched = "Invalid filter"
    /\ config = <<<<"(", "and", ")">>>>

\* C12 as stated: a filter of a flawed expression fails and leaves no filter,
\* and the configuration handler stores nothing when a filter of any of the
\* targets would fail.
FlawedFilterRefusedAndFlawedTargetNotStored ==
    [][/\ FlawedExpressionMakesNoFilter
       /\ (/\ pc = "config_start"
           /\ \E k \in 1..Len(posted) :
                NoOpening(posted[k]) \/ Unclosed(posted[k]) \/ posted[k] = DeeplyNested)
            => config' = config]_vars

\* An atom without labels holds of the candidate: the page number lies in
\* the range, the block has the tag, the block carries the label.
PlainHolds(node) ==
    LET args == ArgsOf(node)
        own == candidate.page_xml[candidate.block_index + 1]
    IN  CASE HeadOf(node) \in {"image", "page"} ->
                /\ PageOfBound[args[1].value] <= candidate.image_number
                /\ candidate.image_number <= PageOfBound[args[Len(args)].value]
          [] HeadOf(node) = "tag" -> own.tag = args[1].value
          [] HeadOf(node) = "label" -> own.text = args[1].value

IsPlain(node) ==
    \/ HeadOf(node) \in {"tag", "label"}
    \/ /\ HeadOf(node) \in {"image", "page"}
       /\ \A k \in 1..Len(ArgsOf(node)) : LabelOfBound[ArgsOf(node)[k].value] = NoLabel

\* C13: the verdict follows boolean semantics.  "and" matches exactly when
\* every argument does, the empty "and" always; "or" exactly when some
\* argument does; "not" exactly when its argument does not; (image N M)
\* exactly when the page number is from N to M, (image N) and (page N) when
\* it is N; (tag X) when the block has the type X; (label X) when the block
\* carries the label X.
VerdictFollowsBooleanSemantics ==
    FilterAsked =>
        LET f == parsed_filter
            args == ArgsOf(f)
        IN  /\ IsPlain(f) => (matched = "match" <=> PlainHolds(f))
            /\ HeadOf(f) = "and" =>
                (matched = "match" <=> \A k \in 1..Len(args) : PlainHolds(args[k]))
            /\ HeadOf(f) = "or" =>
                (matched = "match" <=> \E k \in 1..Len(args) : PlainHolds(args[k]))
            /\ HeadOf(f) = "not" => (matched = "match" <=> ~PlainHolds(args[1]))

\* C13 witness: (and (image 2 4) (tag p)) was asked about a verse on page 3
\* and did not match.
VerseInRangeExcludedWitness ==
    /\ FilterAsked
    /\ target = <<"(", "and", "(", "image", "2", "4", ")", "(", "tag", "p", ")", ")">>
    /\ candidate.image_number = 3
    /\ candidate.page_xml[candidate.block_index + 1].tag = "verse"
    /\ matched = "no match"

(***************************************************************************)
(* Properties of republishing                                              *)
(***************************************************************************)
\* The stored records, ordered by n, are the blocks of the document in the
\* order of the document, numbered 1..N, each with the slug, the XML, the
\* page and the section of its block.
Stores(document) ==
    /\ Len(text_blocks) = Len(document)
    /\ \A k \in 1..Len(document) :
        /\ text_blocks[k].n = k
        /\ text_blocks[k].slug = document[k].block.slug
        /\ text_blocks[k].xml = document[k].block.xml
        /\ text_blocks[k].page_id = document[k].block.page_id
        /\ text_blocks[k].section_id = document[k].section_id

StoredIds == {text_blocks[k].id : k \in 1..Len(text_blocks)}

\* The alignment that request r computed from what it read.
AlignmentOf(r) ==
    _align_blocks([k \in 1..Len(requests[r].existing_blocks_list) |->
                      requests[r].existing_blocks_list[k].xml],
                  [k \in 1..Len(requests[r].document) |-> requests[r].document[k].block.xml])

\* Request r has committed and no other request has written since r read.
CommittedAlone(r) ==
    /\ pc = "republishing"
    /\ requests[r].pc = "committed"
    /\ \A q \in RequestIds \ {r} : requests[q].pc \in {"started", "read"}

\* C30: after a single create request the stored records, ordered by n,
\* are the blocks of the new document in document order with their slug,
\* XML, page and section, numbered 1..N; a record that the alignment pairs
\* with a new block is the same record as before (it keeps its key), a
\* record that is left unpaired is gone, and a block that is left unpaired
\* is a record with a key that no record had before.
SingleCreateStoresDocumentInPlace ==
    \A r \in DOMAIN requests :
        CommittedAlone(r) =>
            /\ Stores(requests[r].document)
            /\ Cardinality(StoredIds) = Len(text_blocks)
            /\ \A k \in 1..Len(AlignmentOf(r)) :
                LET old_idx == AlignmentOf(r)[k][1]
                    new_idx == AlignmentOf(r)[k][2]
                    existing_blocks_list == requests[r].existing_blocks_list
                IN  /\ (old_idx # None /\ new_idx # None) =>
                        At(text_blocks, new_idx).id = At(existing_blocks_list, old_idx).id
                    /\ (old_idx # None /\ new_idx = None) =>
                        At(existing_blocks_list, old_idx).id \notin StoredIds
                    /\ (old_idx = None /\ new_idx # None) =>
                        At(text_blocks, new_idx).id \notin
                            {existing_blocks_list[j].id : j \in 1..Len(existing_blocks_list)}

\* A request has committed alone; its alignment paired a record whose slug,
\* page and section changed, left an old record unpaired and left a new
\* block unpaired.
UpdatedDeletedAndAddedWitness ==
    \E r \in DOMAIN requests :
        /\ CommittedAlone(r)
        /\ \E k \in 1..Len(AlignmentOf(r)) :
            LET old_idx == AlignmentOf(r)[k][1]
                new_idx == AlignmentOf(r)[k][2]
            IN  /\ old_idx # None /\ new_idx # None
                /\ At(requests[r].existing_blocks_list, old_idx).slug
                        # At(text_blocks, new_idx).slug
                /\ At(requests[r].existing_blocks_list, old_idx).section_id
                        # At(text_blocks, new_idx).section_id
        /\ \E k \in 1..Len(AlignmentOf(r)) :
                AlignmentOf(r)[k][1] # None /\ AlignmentOf(r)[k][2] = None
        /\ \E k \in 1..Len(AlignmentOf(r)) :
                AlignmentOf(r)[k][1] = None /\ AlignmentOf(r)[k][2] # None

\* C21: when both create requests for the text are over, the stored records
\* are exactly the blocks of the document of one of them, whatever the
\* order in which the requests read and wrote.
ConcurrentCreatesLeaveOneDocument ==
    (/\ pc = "republishing"
     /\ \A r \in DOMAIN requests : requests[r].pc \in {"committed", "failed"}) =>
        \E r \in DOMAIN requests : Stores(requests[r].document)

(***************************************************************************)
(* Properties of the segmenter                                             *)
(***************************************************************************)
PlainLine == Chars(<<"ka">>)

StageLine == Chars(<<"(", "ka", ")">>)

Paragraph(c) == PageBlock("p", c, NoValue, NoValue, NoValue, FALSE, NoValue)

\* C25: with match_stage enabled, a line that consists solely of a
\* parenthesised stage direction is a paragraph block of its own, separate
\* from the plain lines before and after it: "foo\n(bar)\nbiz" yields the
\* three paragraphs foo, <stage>(bar)</stage> and biz.
StageLineIsParagraphOfItsOwn ==
    (/\ pc = "split"
     /\ match_flags.match_stage
     /\ source_text = join_lines(<<PlainLine, StageLine, PlainLine>>)) =>
        split_blocks =
            <<Paragraph(PlainLine),
              Paragraph(<<STag("stage", NoAttrib)>> \o StageLine \o <<ETag("stage")>>),
              Paragraph(PlainLine)>>

\* The stripped non-empty lines of a text.
NonEmptyLines(s) ==
    SelectSeq([k \in 1..Len(splitlines(s)) |-> strip(splitlines(s)[k])],
              LAMBDA line : line # <<>>)

\* C28: with no inline heuristic enabled, the contents of the returned
\* blocks, joined in order with line feeds, are the stripped non-empty lines
\* of the input in their order.
LinesKeptOnceInInputOrder ==
    (pc = "split" /\ match_flags = NoFlags) =>
        join_lines([k \in 1..Len(split_blocks) |-> split_blocks[k].content])
            = join_lines(NonEmptyLines(source_text))

\* C26: a request whose content is a well-formed document with the root
\* page is answered with the page that the segmenter makes of its text,
\* never with the 500 of "Auto-structuring failed".
PageRootedContentIsRestructured ==
    (/\ pc \in {"auto_structured", "auto_structure_refused", "auto_structure_failed"}
     /\ fromstring(source_text).ok
     /\ fromstring(source_text).root.tag = "page") =>
        /\ pc = "auto_structured"
        /\ xml_strings =
            <<to_xml_string(ProofPage(0,
                split_plain_text_to_blocks(itertext(fromstring(source_text).root.items),
                                           match_flags)))>>

(***************************************************************************)
(* Properties of the alignment as a whole                                  *)
(***************************************************************************)
\* The positions of the alignment whose old (side 1) or new (side 2) index
\* is x.
PositionsOf(side, x) == {k \in 1..Len(alignment) : alignment[k][side] = x}

\* C29: the pairs of _align_blocks cover every old index 0..len(old)-1 and
\* every new index 0..len(new)-1 exactly once and name no other index, no
\* pair is (None, None), and the old indexes as well as the new indexes that
\* are not None appear in strictly increasing order.
AlignmentCoversBothSidesOnceInOrder ==
    pc = "aligned" =>
        /\ \A i \in 0..(Len(old_items) - 1) : Cardinality(PositionsOf(1, i)) = 1
        /\ \A j \in 0..(Len(new_items) - 1) : Cardinality(PositionsOf(2, j)) = 1
        /\ \A k \in 1..Len(alignment) :
            /\ alignment[k] # <<None, None>>
            /\ alignment[k][1] \in {None} \cup 0..(Len(old_items) - 1)
            /\ alignment[k][2] \in {None} \cup 0..(Len(new_items) - 1)
        /\ \A k, l \in 1..Len(alignment) :
            k < l =>
                /\ (alignment[k][1] # None /\ alignment[l][1] # None)
                        => alignment[k][1] < alignment[l][1]
                /\ (alignment[k][2] # None /\ alignment[l][2] # None)
                        => alignment[k][2] < alignment[l][2]

\* C29 witness: an alignment of three old and three new items that holds a
\* pair of two indexes, an unpaired old index and an unpaired new index.
MixedAlignmentWitness ==
    /\ pc = "aligned"
    /\ Len(old_items) = 3 /\ Len(new_items) = 3
    /\ \E k, l, n \in 1..Len(alignment) :
        /\ alignment[k][1] # None /\ alignment[k][2] # None
        /\ alignment[l][1] # None /\ alignment[l][2] = None
        /\ alignment[n][1] = None /\ alignment[n][2] # None

(***************************************************************************)
(* Properties of the components as functions                                *)
(***************************************************************************)

\* C20: no component changes the value it is given: after the block rewrite
\* returns, the element that the caller passed in is as the caller read it
\* before the call.
RewriteLeavesCallerElementUnchanged ==
    pc = "rewritten" => tei = block

====
